---------------------------- MODULE Spec2Model ----------------------------
(***************************************************************************)
(* The traversal kernel of SoAction (src/src/actions/SoAction.cpp): the    *)
(* three apply() overloads, the path-code machinery of pushCurPath /       *)
(* popCurPath / getPathCode, termination and re-entry.  Node action        *)
(* methods are the environment: while a traversal is running they may call *)
(* any of the kernel's public operations.                                  *)
(***************************************************************************)
EXTENDS Integers, Sequences, FiniteSets, TLC

(***************************************************************************)
(* Bounds of the model.                                                    *)
(***************************************************************************)
\* longest path list handed to apply(pathlist)
MaxList == 2
\* deepest nesting of kernel calls (apply / pushCurPath / switchTo frames)
MaxStack == 4
\* number of apply() and switchTo...Traversal() calls in one run
MaxApplies == 2
\* the longest path list applied in the runs over lists with several heads
MaxMulti == 3

\* the number of element classes enabled for the action
NumElements == 2

\* the number of state scopes open at a time
MaxDepth == 1

\* the number of elements pushed on a state
MaxElements == 1

\* the number of methods added to the lists of the action classes
MaxAdded == 2

\* the number of instances made of a class
MaxInstances == 2

\* the number of entries of the shaderObject field and of the children of
\* the SoShaderProgram, together
MaxEntries == 2

(***************************************************************************)
(* enum AppliedCode, enum PathCode                                         *)
(***************************************************************************)
NODE == "NODE"
PATH == "PATH"
PATH_LIST == "PATH_LIST"

NO_PATH == "NO_PATH"
IN_PATH == "IN_PATH"
BELOW_PATH == "BELOW_PATH"
OFF_PATH == "OFF_PATH"

PathCodes == {NO_PATH, IN_PATH, BELOW_PATH, OFF_PATH}

(***************************************************************************)
(* The scene graphs the action is applied to: G0 -> [A, B], A -> [A0, A1]  *)
(* and a second graph H0 -> [H1].  NULL is the null node pointer.          *)
(***************************************************************************)
NULL == "NULL"

Nodes == {"G0", "A", "B", "A0", "A1", "H0", "H1"}

Children(n) ==
  CASE n = "G0" -> <<"A", "B">>
    [] n = "A"  -> <<"A0", "A1">>
    [] n = "H0" -> <<"H1">>
    [] OTHER    -> <<>>

\* the identity (address) of a node, which orders the heads of a path list
Addr(n) ==
  CASE n = "G0" -> 1 [] n = "A" -> 2 [] n = "B" -> 3 [] n = "A0" -> 4
    [] n = "A1" -> 5 [] n = "H0" -> 6 [] n = "H1" -> 7 [] OTHER -> 0

NumChildren(n) == Len(Children(n))

\* child number idx (0-based, as in the code) of node n
Child(n, idx) == Children(n)[idx + 1]

(***************************************************************************)
(* SoPath / SoTempPath: a sequence of (node, index) steps; step 0 is the   *)
(* head, whose index is not meaningful (-1).                               *)
(***************************************************************************)
Step(n, idx) == [node |-> n, index |-> idx]

EmptyPath == <<>>

getFullLength(p) == Len(p)

\* 0-based accessors, as in the code
getIndex(p, i) == p[i + 1].index

getNode(p, i) == p[i + 1].node

getHead(p) == IF Len(p) = 0 THEN NULL ELSE p[1].node

getTail(p) == IF Len(p) = 0 THEN NULL ELSE p[Len(p)].node

setHead(p, n) == << Step(n, -1) >>

appendNode(p, n, idx) == Append(p, Step(n, idx))

\* append(childindex): the child is looked up below the current tail
appendIndex(p, idx) == Append(p, Step(Child(getTail(p), idx), idx))

pop(p) == SubSeq(p, 1, Len(p) - 1)

\* other is a prefix of p, step by step from the head
containsPath(p, other) ==
  /\ Len(other) <= Len(p)
  /\ \A i \in 1..Len(other) :
       /\ p[i].node = other[i].node
       /\ (i > 1 => p[i].index = other[i].index)

RECURSIVE MkPath(_, _)
\* the path from head along the child indices idxs
MkPath(head, idxs) ==
  IF Len(idxs) = 0 THEN setHead(EmptyPath, head)
  ELSE appendIndex(MkPath(head, SubSeq(idxs, 1, Len(idxs) - 1)), idxs[Len(idxs)])


(***************************************************************************)
(* SoPathList: sort() orders by head identity, then lexicographically by   *)
(* child indices (a prefix before its extensions); uniquify() on a sorted  *)
(* list drops every path that runs through the end of the path kept before *)
(* it, duplicates included.                                                *)
(***************************************************************************)
RECURSIVE IndicesLess(_, _, _)
\* p < q, compared from step i (1-based) on
IndicesLess(p, q, i) ==
  IF i > Len(p) THEN i <= Len(q)
  ELSE IF i > Len(q) THEN FALSE
  ELSE IF p[i].index # q[i].index THEN p[i].index < q[i].index
  ELSE IndicesLess(p, q, i + 1)

PathLess(p, q) ==
  IF Addr(getHead(p)) # Addr(getHead(q)) THEN Addr(getHead(p)) < Addr(getHead(q))
  ELSE IndicesLess(p, q, 2)

RECURSIVE Insert(_, _)
\* p put into the sorted list L, after the paths not greater than it
Insert(L, p) ==
  IF Len(L) = 0 THEN <<p>>
  ELSE IF PathLess(p, Head(L)) THEN <<p>> \o L
  ELSE <<Head(L)>> \o Insert(Tail(L), p)

RECURSIVE sort(_)
sort(L) == IF Len(L) = 0 THEN <<>> ELSE Insert(sort(Tail(L)), Head(L))

RECURSIVE UniquifyFrom(_, _)
\* kept: the paths kept so far (non-empty); rest: the paths still to look at
UniquifyFrom(kept, rest) ==
  IF Len(rest) = 0 THEN kept
  ELSE IF containsPath(Head(rest), kept[Len(kept)]) THEN UniquifyFrom(kept, Tail(rest))
  ELSE UniquifyFrom(Append(kept, Head(rest)), Tail(rest))

uniquify(L) == IF Len(L) = 0 THEN <<>> ELSE UniquifyFrom(<<Head(L)>>, Tail(L))

\* the four rules a list passed with obeysrules = TRUE has to satisfy
ObeysRules(L) ==
  /\ \A i \in 1..Len(L) : getHead(L[i]) = getHead(L[1])
  /\ \A i \in 1..Len(L) - 1 : PathLess(L[i], L[i + 1])
  /\ \A i, j \in 1..Len(L) : i # j => ~containsPath(L[i], L[j])

(***************************************************************************)
(* What the application and the node action methods pass to the kernel.    *)
(***************************************************************************)
\* the paths an action is applied to
PathPool ==
  { MkPath("G0", <<>>), MkPath("G0", <<0>>), MkPath("G0", <<1>>),
    MkPath("G0", <<0, 0>>), MkPath("G0", <<0, 1>>), MkPath("H0", <<>>) }

RECURSIVE ListsUpTo(_)
\* all path lists of at most n paths
ListsUpTo(n) ==
  IF n = 0 THEN { <<>> }
  ELSE ListsUpTo(n - 1) \cup
       { Append(L, p) : L \in { K \in ListsUpTo(n - 1) : Len(K) = n - 1 }, p \in PathPool }

ListPool == ListsUpTo(MaxList)

\* the paths of the lists with several heads
MultiPaths ==
  { MkPath("G0", <<0>>), MkPath("G0", <<0, 1>>), MkPath("G0", <<1>>),
    MkPath("H0", <<0>>) }

RECURSIVE ListsOver(_, _)
\* all lists of at most n of the given paths
ListsOver(paths, n) ==
  IF n = 0 THEN { <<>> }
  ELSE ListsOver(paths, n - 1) \cup
       { Append(L, p) : L \in { K \in ListsOver(paths, n - 1) : Len(K) = n - 1 },
                        p \in paths }

MultiPool == ListsOver(MultiPaths, MaxMulti)

\* every path there is
AllPaths == PathPool \cup MultiPaths \cup {EmptyPath}

\* the root nodes an action is applied to (apply(NULL) is allowed)
RootPool == {NULL, "G0", "H0"}

\* AppliedData: the union of a node, a path, or the pair of path lists
NoData == [node |-> NULL, path |-> EmptyPath, pathlist |-> <<>>, origpathlist |-> <<>>]

NodeData(n) == [NoData EXCEPT !.node = n]

PathData(p) == [NoData EXCEPT !.path = p]

\* faulty variant of ListData: the list passed is sorted in place, so the
\* original list is the list traversed
ListData_InPlace(pl, orig) == [NoData EXCEPT !.pathlist = pl, !.origpathlist = pl]

ListData(pl, orig) == [NoData EXCEPT !.pathlist = pl, !.origpathlist = orig]

(***************************************************************************)
(* The state of one SoAction instance, the call stack of the kernel        *)
(* operations in progress, and a record of the operation performed last.   *)
(***************************************************************************)
VARIABLES
  appliedcode,      \* AppliedCode: what the action is applied to
  applieddata,      \* AppliedData
  currentpath,      \* SoTempPath: the path from the head to the current node
  currentpathcode,  \* PathCode
  terminated,       \* SbBool
  state,            \* SoState *: ptr is the state object pointed to, the ptr-th
                    \* one created by this action, with 0 for NULL; made is
                    \* the number of state objects created so far; depth,
                    \* elems and nelems are the fields of that object
  pathcodearray,    \* SbList<SbList<int> *>: the scratch buffer of each depth
  stack,            \* the calls in progress, innermost last
  napplies,         \* apply() and switchTo...Traversal() calls made so far
  aborted,          \* an assertion failed or the code read out of bounds
  last,             \* the operation performed last, with what it saw before
  refcount,         \* SoBase reference counts of the head nodes and the paths
  dropped,          \* the nodes whose reference the application has given up
  freed,            \* the nodes that have been destroyed
  traversalMethods, \* SoActionMethodList *: the table of the list, one method
                    \* for each action method index, empty before setUp()
  addedmethods,     \* the methods added to the lists of the action classes
  types,            \* the type registry: the name and parent of every type
  classTypeId,      \* the static classTypeId of each class
  instances,        \* the number of instances made of each class
  initcalls,        \* the classes whose initClass() has run
  shaderObject,     \* SoMFNode: the shaderObject field of the SoShaderProgram
  children,         \* the children of the SoShaderProgram
  previousChildren, \* SoNodeList
  shouldTraverseShaderObjects,      \* SbBool
  doesContainStateMatrixParameters, \* SbBool
  hasRendered,      \* a GLRender of the node has completed
  sensorFired,      \* sensorCB has run since the last GLRender completed
  lastRender,       \* what the GLRender did, if the last operation was one
  crashed           \* a call on an object of the wrong class has crashed

\* the SoAction instance, the calls in progress and the objects it refers to
actionvars == << appliedcode, applieddata, currentpath, currentpathcode, terminated,
                 state, pathcodearray, stack, napplies, aborted, last,
                 refcount, dropped, freed >>

typevars == << types, classTypeId, instances, initcalls >>

\* the SoShaderProgram node and its private part
shadervars == << shaderObject, children, previousChildren,
                 shouldTraverseShaderObjects, doesContainStateMatrixParameters,
                 hasRendered, sensorFired, lastRender, crashed >>

\* what the classes register, and the node the action kernel does not touch
regvars == << addedmethods, typevars, shadervars >>

classvars == << traversalMethods, regvars >>

vars == << actionvars, classvars >>

heapvars == << refcount, dropped, freed >>

\* the nodes that are applied to: each starts with one reference, held by
\* the application
Heads == {"G0", "H0"}

\* SoBase::ref
ref(counts, x) == [counts EXCEPT ![x] = @ + 1]

\* SoBase::unrefNoDelete
unrefNoDelete(counts, x) == [counts EXCEPT ![x] = @ - 1]

RECURSIVE refAll(_, _)
\* a path list takes a reference to each path appended to it
refAll(counts, L) ==
  IF Len(L) = 0 THEN counts ELSE refAll(ref(counts, Head(L)), Tail(L))

RECURSIVE unrefAll(_, _)
\* a path list gives up the reference to each path removed from it
unrefAll(counts, L) ==
  IF Len(L) = 0 THEN counts ELSE unrefAll(unrefNoDelete(counts, Head(L)), Tail(L))

\* the reference counts without the application's own reference to a node:
\* what they would be had the application not given up any reference
HeldCounts ==
  [node |-> [n \in Heads |-> refcount.node[n] + IF n \in dropped THEN 1 ELSE 0],
   path |-> refcount.path]

(***************************************************************************)
(* SoActionMethodList: the action classes, the node classes with their     *)
(* action method indices, and the table setUp() fills from the methods     *)
(* added with addMethod().  A method is named by the action class that     *)
(* added it and the node class it was added for.                           *)
(***************************************************************************)
\* the parent of each action class; ThisClass is the class of the instance
ActionParent == [SoAction |-> "none", SoCallbackAction |-> "SoAction"]

ThisClass == "SoCallbackAction"

\* the node classes in the order of their action method indices
NodeTypes == << "SoNode", "SoGroup", "SoSeparator", "SoShape" >>

NodeParent ==
  [SoNode |-> "none", SoGroup |-> "SoNode", SoSeparator |-> "SoGroup",
   SoShape |-> "SoNode"]

\* node->getTypeId()
getTypeId(node) ==
  CASE node = "G0" -> "SoSeparator"
    [] node \in {"A", "H0"} -> "SoGroup"
    [] OTHER -> "SoShape"

\* SoNode::getActionMethodIndex(type), 0-based
getActionMethodIndex(type) ==
  (CHOOSE i \in 1..Len(NodeTypes) : NodeTypes[i] = type) - 1

RECURSIVE Chain(_, _)
\* a class and its ancestors, nearest first
Chain(parent, class) ==
  IF class = "none" THEN <<>> ELSE << class >> \o Chain(parent, parent[class])

InChain(chain, class) == \E i \in 1..Len(chain) : chain[i] = class

\* how far up the chain the class is
Distance(chain, class) == CHOOSE i \in 1..Len(chain) : chain[i] = class

\* the method of the slots nothing is added for
nullAction == [action |-> "none", type |-> "none"]

\* the methods that can be added
Methods ==
  { [action |-> a, type |-> NodeTypes[i]] :
      a \in DOMAIN ActionParent, i \in 1..Len(NodeTypes) }

\* faulty variant of Closer: the method added last takes the slot
Closer_LastAdded(class, method, current) == TRUE

\* the method goes into a slot that holds current: the slot is empty, or the
\* method was added by a closer ancestor of the action class
Closer(class, method, current) ==
  \/ current = nullAction
  \/ Distance(Chain(ActionParent, class), method.action)
       < Distance(Chain(ActionParent, class), current.action)

RECURSIVE DirectSlots(_, _, _, _)
\* the slots after the methods added from position k on, by the class or an
\* ancestor, have been put into the slots of their node classes
DirectSlots(added, class, k, table) ==
  IF k > Len(added) THEN table
  ELSE LET method == added[k]
           slot == getActionMethodIndex(method.type) + 1
       IN  IF /\ InChain(Chain(ActionParent, class), method.action)
              /\ Closer(class, method, table[slot])
             THEN DirectSlots(added, class, k + 1, [table EXCEPT ![slot] = method])
             ELSE DirectSlots(added, class, k + 1, table)

RECURSIVE Inherited(_, _)
\* the method of the nearest node class, from type upwards, that has one
Inherited(table, type) ==
  IF type = "none" THEN nullAction
  ELSE IF table[getActionMethodIndex(type) + 1] # nullAction
         THEN table[getActionMethodIndex(type) + 1]
         ELSE Inherited(table, NodeParent[type])

\* setUp(): the table of the class for the methods added
setUp(added, class) ==
  LET direct == DirectSlots(added, class, 1, [i \in 1..Len(NodeTypes) |-> nullAction])
  IN  [i \in 1..Len(NodeTypes) |-> Inherited(direct, NodeTypes[i])]

\* the methods added when the classes were initialised, for the runs that
\* add none: the action class has one for every node
BaseMethods == << [action |-> ThisClass, type |-> "SoNode"] >>

\* the entry traverse(node) invokes
Dispatch(table, node) ==
  IF node = NULL \/ table = <<>> THEN nullAction
  ELSE table[getActionMethodIndex(getTypeId(node)) + 1]

\* traverse(node)
traverse(node) == Dispatch(traversalMethods, node)

(***************************************************************************)
(* The classes with a type of their own: SoAction and the field classes.   *)
(***************************************************************************)
\* SoType::badType()
badType == 0

\* the classes and their parents
ClassParent ==
  [SoAction |-> "none", SoField |-> "none", SoSField |-> "SoField",
   SoMField |-> "SoField", SoSFVec4f |-> "SoSField", SoMFVec4f |-> "SoMField",
   SoMFVec3f |-> "SoMField"]

\* the classes instances are made of
ConcreteClasses == {"SoSFVec4f", "SoMFVec4f"}

\* One call in progress.  kind: "apply", "push" (pushCurPath(idx, node)),
\* "pushnull" (pushCurPath()) or "switch" (switchTo...Traversal).
\*   code, acode, adata: the locals storedcurr / storedcode / storeddata of
\*     apply and switchTo..., or the path code a group node keeps for
\*     popCurPath(prevpathcode);
\*   path: storedpath of switchTo...; for the other kinds the current path
\*     at the call, kept for comparison only;
\*   node: the node whose action method runs in this frame;
\*   branch, sorted, i: where apply(pathlist) is, its sortedlist and its i;
\*   begins, ends, sett, dirty: bookkeeping of the calls made since;
\*   arg: the path list apply() was called with;
\*   refs: the reference counts at the call;
\*   st: the state pointer at the call;
\*   method: the method traverse(node) has invoked;
\*   term: the terminated flag at the call, for an apply() called by a node
\*     action method (FALSE for the other calls);
\*   gotlen, got: the depth (curlen) at which the node's action method last
\*     got indices from getPathCode, 0 if it got none, and those indices.
Frame(kind, node, branch) ==
  [kind |-> kind, node |-> node, branch |-> branch,
   code |-> currentpathcode, acode |-> appliedcode, adata |-> applieddata,
   path |-> currentpath, sorted |-> <<>>, i |-> 0,
   begins |-> 0, ends |-> 0, sett |-> FALSE, dirty |-> FALSE,
   arg |-> <<>>, refs |-> HeldCounts, st |-> state, method |-> traverse(node),
   term |-> (kind = "apply" /\ stack # <<>> /\ terminated),
   gotlen |-> 0, got |-> <<>>]

\* the variables a caller passes to getPathCode for numindices and indices,
\* as they are before the call: no index count, no buffer
CallerVars == [numindices |-> -1, indices |-> <<>>]

\* the stack indices of the enabled elements
StackIndices == 0..(NumElements - 1)

\* the element get() finds at an index nothing was written to: the one the
\* element's factory makes
InitialElement == [id |-> 0, depth |-> 0]

\* the state pointer of a new action: NULL, no state created; a state
\* starts with no open scope and no element
NoState ==
  [ptr |-> 0, made |-> 0, depth |-> 0,
   elems |-> [index \in StackIndices |-> <<>>], nelems |-> 0]

\* What is remembered of the operation performed last.  For a return
\* (op is "applyReturn", "switchReturn", "popCurPath" or "popCurPathVoid")
\* and for "getPathCode": the path code and the current path just before
\* it, and the frame of the call that returned.  For "pushCurPathVoid" and
\* "popPushCurPath": the path code and the current path just before it.
\* For "getPathCode" also
\* the caller's numindices and indices after the call.  Nothing for the
\* others.
NoLast ==
  [op |-> "", code |-> NO_PATH, path |-> EmptyPath, out |-> CallerVars,
   frame |-> [kind |-> "", node |-> NULL, branch |-> "",
              code |-> NO_PATH, acode |-> NODE, adata |-> NoData,
              path |-> EmptyPath, sorted |-> <<>>, i |-> 0,
              begins |-> 0, ends |-> 0, sett |-> FALSE, dirty |-> FALSE,
              arg |-> <<>>,
              refs |-> [node |-> [n \in Heads |-> 1],
                        path |-> [p \in AllPaths |-> 1]],
              st |-> NoState, method |-> nullAction,
              term |-> FALSE, gotlen |-> 0, got |-> <<>>]]

LastOp(op) == [NoLast EXCEPT !.op = op, !.code = currentpathcode, !.path = currentpath]

\* the last operation was the return from the call of frame f
LastReturn(op, f) == [LastOp(op) EXCEPT !.frame = f]

Top == stack[Len(stack)]

Below == SubSeq(stack, 1, Len(stack) - 1)

\* the node whose action method is running
CurNode == Top.node

\* a traversal is running: node action methods may call the kernel
InTraversal == stack # <<>> /\ ~aborted

\* apply() or switchTo...Traversal() may be called here: by the application
\* between traversals, or by a node action method during one
CanCall == ~aborted /\ napplies < MaxApplies /\ Len(stack) < MaxStack

Counted == napplies + 1

\* lastRender when the last operation was not a GLRender.  Of a GLRender:
\*   first: no GLRender had completed before; fired: sensorCB had run since
\*   the one before; traversed: the shader objects were loaded; recomputed:
\*   doesContainStateMatrixParameters was worked out again; detached: the
\*   nodes removeGLShaderFromGLProgram was called on, in order; updated:
\*   updateStateMatrixParameters was called
NoRender ==
  [done |-> FALSE, first |-> FALSE, fired |-> FALSE, traversed |-> FALSE,
   recomputed |-> FALSE, detached |-> <<>>, updated |-> FALSE]

\* a new action, after the classes have added the given methods, and a new
\* SoShaderProgram
InitWith(added) ==
  /\ appliedcode = NODE
  /\ applieddata = NoData
  /\ currentpath = EmptyPath
  /\ currentpathcode = NO_PATH
  /\ terminated = FALSE
  /\ state = NoState
  /\ pathcodearray = <<>>
  /\ stack = <<>>
  /\ napplies = 0
  /\ aborted = FALSE
  /\ last = NoLast
  /\ refcount = [node |-> [n \in Heads |-> 1],
                 path |-> [p \in AllPaths |-> 1]]
  /\ dropped = {}
  /\ freed = {}
  /\ traversalMethods = <<>>
  /\ addedmethods = added
  /\ types = <<>>
  /\ classTypeId = [class \in DOMAIN ClassParent |-> badType]
  /\ instances = [class \in ConcreteClasses |-> 0]
  /\ initcalls = {}
  /\ shaderObject = <<>>
  /\ children = <<>>
  /\ previousChildren = <<>>
  /\ shouldTraverseShaderObjects = TRUE
  /\ doesContainStateMatrixParameters = FALSE
  /\ hasRendered = FALSE
  /\ sensorFired = FALSE
  /\ lastRender = NoRender
  /\ crashed = FALSE

Init == InitWith(BaseMethods)

\* faulty variant of getState: a state is created at every call
getState_AlwaysNew ==
  [NoState EXCEPT !.ptr = state.made + 1, !.made = state.made + 1]

\* getState(): a state is created if there is none
getState ==
  IF state.ptr = 0
    THEN [NoState EXCEPT !.ptr = state.made + 1, !.made = state.made + 1]
    ELSE state

\* the path code apply() starts a path or path-list traversal with
StartCode(p) == IF getFullLength(p) > 1 THEN IN_PATH ELSE BELOW_PATH

(***************************************************************************)
(* apply(SoNode * root), up to the call of beginTraversal(root)            *)
(***************************************************************************)
\* faulty variant of NullRootCode: apply() returns at the test of root,
\* before the stored path code is put back
NullRootCode_NotRestored == NO_PATH

\* the path code after apply(NULL): set to NO_PATH, then, root being NULL,
\* set back to storedcurr
NullRootCode == currentpathcode

\* faulty variant of RefRoot: the reference is not taken
RefRoot_Missing(root) == refcount

\* root->ref()
RefRoot(root) == [refcount EXCEPT !.node = ref(@, root)]

\* root->unrefNoDelete()
UnrefRoot(root) == [refcount EXCEPT !.node = unrefNoDelete(@, root)]

ApplyNode(root) ==
  /\ CanCall
  /\ root \notin freed
  /\ napplies' = Counted
  /\ terminated' = FALSE
  /\ IF root # NULL
       THEN /\ currentpathcode' = NO_PATH
            /\ applieddata' = NodeData(root)
            /\ appliedcode' = NODE
            /\ currentpath' = setHead(currentpath, root)
            /\ state' = getState
            /\ stack' = Append(stack, [Frame("apply", root, "node") EXCEPT
                                 !.begins = 1,
                                 !.method = Dispatch(setUp(addedmethods, ThisClass), root)])
            /\ refcount' = RefRoot(root)
            /\ last' = NoLast
       ELSE /\ last' = LastReturn("applyReturn", Frame("apply", NULL, "node"))
            /\ currentpathcode' = NullRootCode
            /\ UNCHANGED << applieddata, appliedcode, currentpath, state, stack,
                            refcount >>
  /\ UNCHANGED << pathcodearray, aborted, dropped, freed >>
  /\ traversalMethods' = setUp(addedmethods, ThisClass)
  /\ UNCHANGED regvars

(***************************************************************************)
(* apply(SoPath * path), up to the call of beginTraversal(node)            *)
(***************************************************************************)
\* path->ref()
RefPath(path) == [refcount EXCEPT !.path = ref(@, path)]

\* path->unrefNoDelete()
UnrefPath(path) == [refcount EXCEPT !.path = unrefNoDelete(@, path)]

ApplyPath(path) ==
  /\ CanCall
  /\ getHead(path) \notin freed
  /\ napplies' = Counted
  /\ terminated' = FALSE
  /\ state' = getState
  /\ IF getFullLength(path) # 0 /\ getNode(path, 0) # NULL
       THEN /\ currentpathcode' = StartCode(path)
            /\ applieddata' = PathData(path)
            /\ appliedcode' = PATH
            /\ currentpath' = setHead(currentpath, getNode(path, 0))
            /\ stack' = Append(stack,
                 [Frame("apply", getNode(path, 0), "path") EXCEPT
                    !.begins = 1,
                    !.method = Dispatch(setUp(addedmethods, ThisClass), getNode(path, 0))])
            /\ refcount' = RefPath(path)
            /\ last' = NoLast
       ELSE /\ last' = LastReturn("applyReturn", Frame("apply", NULL, "path"))
            /\ UNCHANGED << currentpathcode, applieddata, appliedcode, currentpath,
                            stack, refcount >>
  /\ UNCHANGED << pathcodearray, aborted, dropped, freed >>
  /\ traversalMethods' = setUp(addedmethods, ThisClass)
  /\ UNCHANGED regvars

(***************************************************************************)
(* apply(const SoPathList & pathlist, SbBool obeysrules), up to the first  *)
(* call of beginTraversal                                                  *)
(***************************************************************************)
\* faulty variant of GroupEnd: the inner loop is missing, a pass takes one path
GroupEnd_OnePath(sortedlist, i, head) == i

RECURSIVE GroupEnd(_, _, _)
\* the inner while loop of the multi-head branch: the value of i (0-based)
\* after the paths with head `head` that follow position i have been taken
GroupEnd(sortedlist, i, head) ==
  IF i < Len(sortedlist) /\ getHead(sortedlist[i + 1]) = head
    THEN GroupEnd(sortedlist, i + 1, head)
    ELSE i

\* faulty variant of TempList: templist.truncate(0) is missing, the paths of
\* the passes before are still in the list
TempList_NotTruncated(sortedlist, i) ==
  SubSeq(sortedlist, 1, GroupEnd(sortedlist, i + 1, getHead(sortedlist[i + 1])))

\* templist of the pass that starts at position i (0-based) of sortedlist
TempList(sortedlist, i) ==
  SubSeq(sortedlist, i + 1, GroupEnd(sortedlist, i + 1, getHead(sortedlist[i + 1])))

\* faulty variant of SortedList: the copy is not sorted before uniquify()
SortedList_NoSort(pathlist) == uniquify(pathlist)

\* faulty variant of SortedList: uniquify() is not called on the sorted copy
SortedList_NoUniquify(pathlist) == sort(pathlist)

\* the sorted, uniquified copy apply() makes of a list that may break the rules
SortedList(pathlist) == uniquify(sort(pathlist))

\* all heads of the sorted list are the same
OneHead(sortedlist) == getHead(sortedlist[1]) = getHead(sortedlist[Len(sortedlist)])

\* the branch apply(pathlist, obeysrules) takes
Branch(pathlist, obeysrules) ==
  IF obeysrules THEN "obeys"
  ELSE IF OneHead(SortedList(pathlist)) THEN "single" ELSE "multi"

\* the path code apply(pathlist) sets before its single traversal
ListStartCode(pathlist) == StartCode(pathlist[1])

\* the references held by the local lists of apply(pathlist, FALSE):
\* sortedlist holds one to each path it keeps, templist one to each path of
\* the pass in progress
ListRefs(br, sortedlist, templist) ==
  CASE br = "single" -> [refcount EXCEPT !.path = refAll(@, sortedlist)]
    [] br = "multi" -> [refcount EXCEPT !.path = refAll(refAll(@, sortedlist), templist)]
    [] OTHER -> refcount

\* the references given up when the local lists of apply(pathlist, FALSE)
\* go out of scope
ListUnrefs(counts, br, sortedlist, templist) ==
  CASE br = "single" -> [counts EXCEPT !.path = unrefAll(@, sortedlist)]
    [] br = "multi" -> [counts EXCEPT !.path = unrefAll(unrefAll(@, sortedlist), templist)]
    [] OTHER -> counts

ApplyPathList(pathlist, obeysrules) ==
  /\ CanCall
  /\ obeysrules => ObeysRules(pathlist)
  /\ \A k \in 1..Len(pathlist) : getHead(pathlist[k]) \notin freed
  /\ napplies' = Counted
  /\ IF Len(pathlist) = 0
       THEN /\ last' = LastReturn("applyReturn", Frame("apply", NULL, "empty"))
            /\ UNCHANGED << terminated, state, currentpathcode, applieddata,
                            appliedcode, currentpath, stack, refcount >>
       ELSE LET br == Branch(pathlist, obeysrules)
                sortedlist == SortedList(pathlist)
                templist == TempList(sortedlist, 0)
                used == CASE br = "obeys" -> pathlist
                          [] br = "single" -> sortedlist
                          [] OTHER -> templist
                head == getHead(used[1])
            IN  /\ terminated' = FALSE
                /\ state' = getState
                /\ applieddata' = ListData(used, pathlist)
                /\ appliedcode' = PATH_LIST
                /\ currentpathcode' =
                     IF br = "multi" THEN StartCode(templist[1])
                     ELSE ListStartCode(pathlist)
                /\ currentpath' = setHead(currentpath, head)
                /\ stack' = Append(stack,
                     [Frame("apply", head, br) EXCEPT
                        !.begins = 1,
                        !.method = Dispatch(setUp(addedmethods, ThisClass), head),
                        !.arg = pathlist,
                        !.sorted = IF br = "multi" THEN sortedlist ELSE <<>>,
                        !.i = IF br = "multi" THEN Len(templist) ELSE 0])
                /\ refcount' = ListRefs(br, sortedlist, templist)
                /\ last' = NoLast
  /\ UNCHANGED << pathcodearray, aborted, dropped, freed >>
  /\ traversalMethods' = setUp(addedmethods, ThisClass)
  /\ UNCHANGED regvars

(***************************************************************************)
(* beginTraversal has returned to apply(): the rest of apply()             *)
(***************************************************************************)
\* the frames left when the innermost call returns without restoring the
\* current path: those above the innermost switchTo... call (which will
\* restore it) are marked as no longer having the path they were pushed on
RECURSIVE MarkDirty(_)
MarkDirty(frames) ==
  IF Len(frames) = 0 \/ frames[Len(frames)].kind = "switch" THEN frames
  ELSE Append(MarkDirty(SubSeq(frames, 1, Len(frames) - 1)),
              [frames[Len(frames)] EXCEPT !.dirty = TRUE])

\* faulty variant of MoreHeads: the loop does not look at the terminated flag
MoreHeads_NoTerminatedTest(f) == f.branch = "multi" /\ f.i < Len(f.sorted)

\* the multi-head loop goes on to another head
MoreHeads(f) == f.branch = "multi" /\ f.i < Len(f.sorted) /\ ~terminated

\* whether apply() calls endTraversal after the beginTraversal of frame f
CallsEndTraversal(f) == f.branch # "multi"

\* endTraversal(head) where the branch calls it, then the restoring of the
\* stored fields; the current path is left as the traversal left it
\* faulty variant of TerminatedOnReturn: apply() clears the flag as it does
\* at its start
TerminatedOnReturn_Cleared == FALSE

\* the terminated flag when apply() returns: the statements after the
\* traversal leave it alone
TerminatedOnReturn == terminated

\* the reference counts after apply() has given up the references the call
\* of frame f took (the multi-head loop has emptied templist already)
Unpinned(f) ==
  CASE f.branch = "node" -> UnrefRoot(f.node)
    [] f.branch = "path" -> UnrefPath(applieddata.path)
    [] f.branch = "single" -> ListUnrefs(refcount, "single", applieddata.pathlist, <<>>)
    [] f.branch = "multi" -> ListUnrefs(refcount, "multi", f.sorted, applieddata.pathlist)
    [] OTHER -> refcount

ApplyReturn ==
  /\ InTraversal
  /\ Top.kind = "apply"
  /\ ~MoreHeads(Top)
  /\ appliedcode' = Top.acode
  /\ currentpathcode' = Top.code
  /\ applieddata' = Top.adata
  /\ refcount' = Unpinned(Top)
  /\ terminated' = TerminatedOnReturn
  /\ stack' = MarkDirty(Below)
  /\ last' = LastReturn("applyReturn",
                        [Top EXCEPT !.ends = IF CallsEndTraversal(Top) THEN @ + 1 ELSE @])
  /\ UNCHANGED << currentpath, state, pathcodearray, napplies, aborted, dropped, freed >>
  /\ UNCHANGED classvars

\* the multi-head branch: templist.truncate(0), then the next pass of the loop
NextHead ==
  /\ InTraversal
  /\ Top.kind = "apply"
  /\ MoreHeads(Top)
  /\ LET templist == TempList(Top.sorted, Top.i)
         head == getHead(templist[1])
     IN  /\ applieddata' = ListData(templist, applieddata.origpathlist)
         /\ appliedcode' = PATH_LIST
         /\ currentpathcode' = StartCode(templist[1])
         /\ currentpath' = setHead(currentpath, head)
         /\ stack' = Append(Below,
                            [Top EXCEPT !.node = head,
                                        !.method = traverse(head),
                                        !.gotlen = 0, !.got = <<>>,
                                        !.i = Top.i + Len(templist),
                                        !.begins = Top.begins + 1])
         /\ refcount' = [refcount EXCEPT
                           !.path = refAll(unrefAll(@, applieddata.pathlist), templist)]
  /\ last' = LastOp("nextHead")
  /\ UNCHANGED << terminated, state, pathcodearray, napplies, aborted, dropped, freed >>
  /\ UNCHANGED classvars

(***************************************************************************)
(* pushCurPath(const int childindex, SoNode * node)                        *)
(***************************************************************************)
\* the loop over the path list: the position (0-based) of the first path
\* that is at least curlen long and contains the current path, or the
\* length of the list if there is none
RECURSIVE FindContaining(_, _, _)
FindContaining(pl, cp, i) ==
  IF i >= Len(pl) THEN Len(pl)
  ELSE IF getFullLength(pl[i + 1]) >= getFullLength(cp) /\ containsPath(pl[i + 1], cp)
    THEN i
    ELSE FindContaining(pl, cp, i + 1)

\* faulty variant of PushCodePath: the test for leaving the path is missing
PushCodePath_NoOffTest(cp, path) ==
  IF getFullLength(cp) = getFullLength(path) THEN BELOW_PATH ELSE IN_PATH

\* the path code after the append, when applied to a path
PushCodePath(cp, path) ==
  LET curlen == getFullLength(cp)
  IN  IF getIndex(cp, curlen - 1) # getIndex(path, curlen - 1) THEN OFF_PATH
      ELSE IF curlen = getFullLength(path) THEN BELOW_PATH
      ELSE IN_PATH

\* faulty variant of PushCodeList: the test for the end of the path found
\* is missing
PushCodeList_NoBelowTest(cp, pl) ==
  IF FindContaining(pl, cp, 0) = Len(pl) THEN OFF_PATH ELSE IN_PATH

\* the path code after the append, when applied to a path list
PushCodeList(cp, pl) ==
  LET curlen == getFullLength(cp)
      i == FindContaining(pl, cp, 0)
  IN  IF i = Len(pl) THEN OFF_PATH
      ELSE IF getFullLength(pl[i + 1]) = curlen THEN BELOW_PATH
      ELSE IN_PATH

\* the current path after the append; node may be NULL
PushedPath(childindex, node) ==
  IF node # NULL THEN appendNode(currentpath, node, childindex)
  ELSE appendIndex(currentpath, childindex)

\* append(childindex) looks the child up below the tail of the current path:
\* there is none if the tail is not a node with that many children
PushDefined(childindex, node) ==
  node # NULL \/ (/\ getTail(currentpath) # NULL
                  /\ getTail(currentpath) \notin freed
                  /\ childindex < NumChildren(getTail(currentpath)))

\* the assertion of the PATH branch holds (the NODE case never sets IN_PATH:
\* with it the code would read the union as a path list)
PushAssert(cp) ==
  currentpathcode = IN_PATH =>
    /\ appliedcode # NODE
    /\ appliedcode = PATH => getFullLength(cp) <= getFullLength(applieddata.path)

\* what goes wrong when pushCurPath does not go through: "assert" when the
\* assertion of the PATH branch fails, "abort" otherwise
PushFailure(childindex, node) ==
  IF /\ PushDefined(childindex, node)
     /\ currentpathcode = IN_PATH
     /\ appliedcode = PATH
     /\ getFullLength(PushedPath(childindex, node)) > getFullLength(applieddata.path)
    THEN "assert"
    ELSE "abort"

\* faulty variant of pushCurPathCode: the path code is worked out again
\* whenever it is not NO_PATH, instead of only when it is IN_PATH
pushCurPathCode_NotNoPath(cp) ==
  IF currentpathcode = NO_PATH THEN NO_PATH
  ELSE IF appliedcode = PATH
    THEN IF getFullLength(cp) > getFullLength(applieddata.path) THEN OFF_PATH
         ELSE PushCodePath(cp, applieddata.path)
  ELSE PushCodeList(cp, applieddata.pathlist)

pushCurPathCode(cp) ==
  IF currentpathcode # IN_PATH THEN currentpathcode
  ELSE IF appliedcode = PATH THEN PushCodePath(cp, applieddata.path)
  ELSE PushCodeList(cp, applieddata.pathlist)

\* a group node gets ready to traverse its child number childindex
PushCurPath(childindex, node) ==
  /\ InTraversal
  /\ Len(stack) < MaxStack
  /\ CurNode # NULL
  /\ childindex \in 0..NumChildren(CurNode) - 1
  /\ node \in {NULL, Child(CurNode, childindex)}
  /\ IF PushDefined(childindex, node) /\ PushAssert(PushedPath(childindex, node))
       THEN /\ currentpath' = PushedPath(childindex, node)
            /\ currentpathcode' = pushCurPathCode(PushedPath(childindex, node))
            /\ stack' = Append(stack, Frame("push", Child(CurNode, childindex), ""))
            /\ last' = NoLast
            /\ UNCHANGED aborted
       ELSE /\ aborted' = TRUE
            /\ last' = LastOp(PushFailure(childindex, node))
            /\ UNCHANGED << currentpath, currentpathcode, stack >>
  /\ UNCHANGED << appliedcode, applieddata, terminated, state, pathcodearray, napplies >>
  /\ UNCHANGED heapvars
  /\ UNCHANGED classvars

(***************************************************************************)
(* popCurPath(const PathCode prevpathcode): the group node passes the path *)
(* code it had before the push                                             *)
(***************************************************************************)
\* faulty variant of popCurPathCode: the path code is not set back
popCurPathCode_Keep(prevpathcode) == currentpathcode

popCurPathCode(prevpathcode) == prevpathcode

PopCurPathPrev ==
  /\ InTraversal
  /\ Top.kind = "push"
  /\ IF Len(currentpath) > 0
       THEN /\ currentpath' = pop(currentpath)
            /\ currentpathcode' = popCurPathCode(Top.code)
            /\ stack' = Below
            /\ last' = LastReturn("popCurPath", Top)
            /\ UNCHANGED aborted
       ELSE /\ aborted' = TRUE
            /\ last' = LastOp("abort")
            /\ UNCHANGED << currentpath, currentpathcode, stack >>
  /\ UNCHANGED << appliedcode, applieddata, terminated, state, pathcodearray, napplies >>
  /\ UNCHANGED heapvars
  /\ UNCHANGED classvars

(***************************************************************************)
(* pushCurPath(void), popPushCurPath(childindex, node), popCurPath(void)   *)
(***************************************************************************)
PushCurPathNull ==
  /\ InTraversal
  /\ Len(stack) < MaxStack
  /\ CurNode # NULL
  /\ NumChildren(CurNode) > 0
  /\ currentpath' = appendNode(currentpath, NULL, -1)
  /\ stack' = Append(stack, Frame("pushnull", NULL, ""))
  /\ last' = LastOp("pushCurPathVoid")
  /\ UNCHANGED << appliedcode, applieddata, currentpathcode, terminated, state,
                  pathcodearray, napplies, aborted >>
  /\ UNCHANGED heapvars
  /\ UNCHANGED classvars

\* faulty variant of PopPushedPath: the previous step is not popped off
PopPushedPath_NoPop(childindex, node) ==
  appendNode(currentpath, node, childindex)

\* the current path after popPushCurPath
PopPushedPath(childindex, node) ==
  IF node = NULL THEN appendIndex(pop(currentpath), childindex)
  ELSE appendNode(pop(currentpath), node, childindex)

PopPushDefined(childindex, node) ==
  /\ Len(currentpath) > 0
  /\ node = NULL =>
       /\ getTail(pop(currentpath)) # NULL
       /\ childindex < NumChildren(getTail(pop(currentpath)))

PopPushCurPath(childindex, node) ==
  /\ InTraversal
  /\ Top.kind = "pushnull"
  /\ LET parent == stack[Len(stack) - 1].node
     IN  /\ childindex \in 0..NumChildren(parent) - 1
         /\ node \in {NULL, Child(parent, childindex)}
         /\ IF PopPushDefined(childindex, node)
              THEN /\ currentpath' = PopPushedPath(childindex, node)
                   /\ stack' = Append(Below,
                        [Top EXCEPT !.node = Child(parent, childindex),
                                    !.method = traverse(Child(parent, childindex)),
                                    !.gotlen = 0, !.got = <<>>])
                   /\ last' = LastOp("popPushCurPath")
                   /\ UNCHANGED aborted
              ELSE /\ aborted' = TRUE
                   /\ last' = LastOp("abort")
                   /\ UNCHANGED << currentpath, stack >>
  /\ UNCHANGED << appliedcode, applieddata, currentpathcode, terminated, state,
                  pathcodearray, napplies >>
  /\ UNCHANGED heapvars
  /\ UNCHANGED classvars

PopCurPath ==
  /\ InTraversal
  /\ Top.kind = "pushnull"
  /\ IF Len(currentpath) > 0
       THEN /\ currentpath' = pop(currentpath)
            /\ stack' = Below
            /\ last' = LastReturn("popCurPathVoid", Top)
            /\ UNCHANGED aborted
       ELSE /\ aborted' = TRUE
            /\ last' = LastOp("abort")
            /\ UNCHANGED << currentpath, stack >>
  /\ UNCHANGED << appliedcode, applieddata, currentpathcode, terminated, state,
                  pathcodearray, napplies >>
  /\ UNCHANGED heapvars
  /\ UNCHANGED classvars

(***************************************************************************)
(* getPathCode(int & numindices, const int * & indices) and usePathCode    *)
(***************************************************************************)
RECURSIVE ListIndices_NoPrevIdx(_, _, _, _)
\* faulty variant of ListIndices: the comparison with previdx is missing
ListIndices_NoPrevIdx(pl, cp, i, previdx) ==
  IF i >= Len(pl) THEN <<>>
  ELSE LET path == pl[i + 1]
           curlen == getFullLength(cp)
       IN  IF getFullLength(path) > curlen /\ containsPath(path, cp)
             THEN <<getIndex(path, curlen)>>
                    \o ListIndices_NoPrevIdx(pl, cp, i + 1, getIndex(path, curlen))
             ELSE ListIndices_NoPrevIdx(pl, cp, i + 1, previdx)

RECURSIVE ListIndices(_, _, _, _)
\* the loop of usePathCode over the path list from position i (0-based) on:
\* the index at curlen of every longer path that contains the current path,
\* left out when it equals the index taken just before
ListIndices(pl, cp, i, previdx) ==
  IF i >= Len(pl) THEN <<>>
  ELSE LET path == pl[i + 1]
           curlen == getFullLength(cp)
       IN  IF getFullLength(path) > curlen /\ containsPath(path, cp)
                /\ getIndex(path, curlen) # previdx
             THEN <<getIndex(path, curlen)>>
                    \o ListIndices(pl, cp, i + 1, getIndex(path, curlen))
             ELSE ListIndices(pl, cp, i + 1, previdx)

\* faulty variant of usePathCode: for a path, the index of the current step
\* instead of the next one
usePathCode_OffByOne ==
  IF appliedcode = PATH_LIST
    THEN ListIndices(applieddata.pathlist, currentpath, 0, -1)
    ELSE << getIndex(applieddata.path, getFullLength(currentpath) - 1) >>

\* the contents of myarray when usePathCode returns
usePathCode ==
  IF appliedcode = PATH_LIST
    THEN ListIndices(applieddata.pathlist, currentpath, 0, -1)
    ELSE << getIndex(applieddata.path, getFullLength(currentpath)) >>

\* usePathCode reads pathcodearray[curlen-1] and, when applied to a path,
\* the path's index at curlen: both have to exist
UsePathCodeDefined ==
  /\ getFullLength(currentpath) > 0
  /\ appliedcode # NODE
  /\ appliedcode = PATH => getFullLength(currentpath) < getFullLength(applieddata.path)

\* what goes wrong when usePathCode is not defined: "noarray" when the
\* current path is empty (pathcodearray[-1] is read), "abort" otherwise
UsePathCodeFailure ==
  IF getFullLength(currentpath) = 0 THEN "noarray" ELSE "abort"

\* pathcodearray grown to curlen buffers, with myarray replaced
SetBuffer(arr, curlen, myarray) ==
  [d \in 1..(IF Len(arr) < curlen THEN curlen ELSE Len(arr)) |->
     IF d = curlen THEN myarray ELSE IF d <= Len(arr) THEN arr[d] ELSE <<>>]

\* numindices and indices as usePathCode sets them
Outputs(myarray) == [numindices |-> Len(myarray), indices |-> myarray]

\* faulty variant of CallsUsePathCode: usePathCode is called whatever the
\* path code
CallsUsePathCode_Always == TRUE

\* the test getPathCode makes before it calls usePathCode
CallsUsePathCode == currentpathcode = IN_PATH

\* getPathCode called by the action method of the current node; keeps tells
\* whether what the method does with the indices it got is kept track of
GetPathCodeBy(keeps) ==
  /\ InTraversal
  /\ IF ~CallsUsePathCode
       THEN /\ last' = LastOp("getPathCode")
            /\ UNCHANGED << pathcodearray, stack, aborted >>
       ELSE IF UsePathCodeDefined
         THEN /\ pathcodearray' =
                   SetBuffer(pathcodearray, getFullLength(currentpath), usePathCode)
              /\ stack' = IF keeps
                             THEN Append(Below,
                                    [Top EXCEPT !.gotlen = getFullLength(currentpath),
                                                !.got = usePathCode])
                             ELSE stack
              /\ last' = [LastOp("getPathCode") EXCEPT !.out = Outputs(usePathCode)]
              /\ UNCHANGED aborted
         ELSE /\ aborted' = TRUE
              /\ last' = LastOp(UsePathCodeFailure)
              /\ UNCHANGED << pathcodearray, stack >>
  /\ UNCHANGED << appliedcode, applieddata, currentpath, currentpathcode, terminated,
                  state, napplies >>
  /\ UNCHANGED heapvars
  /\ UNCHANGED classvars

GetPathCode == GetPathCodeBy(FALSE)

\* the action method goes on using the indices after the call, as a group
\* node does while it traverses its children
KeepPathCode == GetPathCodeBy(TRUE)

(***************************************************************************)
(* setTerminated(const SbBool flag)                                        *)
(***************************************************************************)
SetTerminated(flag) ==
  /\ InTraversal
  /\ terminated' = flag
  /\ stack' = [k \in 1..Len(stack) |-> [stack[k] EXCEPT !.sett = @ \/ flag]]
  /\ last' = NoLast
  /\ UNCHANGED << appliedcode, applieddata, currentpath, currentpathcode, state,
                  pathcodearray, napplies, aborted >>
  /\ UNCHANGED heapvars
  /\ UNCHANGED classvars

(***************************************************************************)
(* switchToPathTraversal(path) and switchToNodeTraversal(node)             *)
(***************************************************************************)
SwitchToPathTraversal(path) ==
  /\ InTraversal
  /\ CanCall
  /\ napplies' = Counted
  /\ appliedcode' = PATH
  /\ applieddata' = PathData(path)
  /\ currentpathcode' = IN_PATH
  /\ stack' = Append(stack, Frame("switch", getNode(path, 0), "path"))
  /\ last' = NoLast
  /\ UNCHANGED << currentpath, terminated, state, pathcodearray, aborted >>
  /\ UNCHANGED heapvars
  /\ UNCHANGED classvars

\* faulty variant of SwitchToNodeTraversal: the node is traversed through
\* beginTraversal() and endTraversal() instead of traverse()
SwitchToNodeTraversal_Begins(node) ==
  /\ InTraversal
  /\ CanCall
  /\ napplies' = Counted
  /\ appliedcode' = NODE
  /\ applieddata' = NodeData(node)
  /\ currentpathcode' = NO_PATH
  /\ currentpath' = EmptyPath
  /\ stack' = Append(stack, [Frame("switch", node, "node") EXCEPT !.begins = 1, !.ends = 1])
  /\ last' = NoLast
  /\ UNCHANGED << terminated, state, pathcodearray, aborted >>
  /\ UNCHANGED heapvars
  /\ UNCHANGED classvars

SwitchToNodeTraversal(node) ==
  /\ InTraversal
  /\ CanCall
  /\ napplies' = Counted
  /\ appliedcode' = NODE
  /\ applieddata' = NodeData(node)
  /\ currentpathcode' = NO_PATH
  /\ currentpath' = EmptyPath
  /\ stack' = Append(stack, Frame("switch", node, "node"))
  /\ last' = NoLast
  /\ UNCHANGED << terminated, state, pathcodearray, aborted >>
  /\ UNCHANGED heapvars
  /\ UNCHANGED classvars

\* faulty variant of SwitchReturn: the current path is not put back
SwitchReturn_KeepsPath ==
  /\ InTraversal
  /\ Top.kind = "switch"
  /\ currentpathcode' = Top.code
  /\ applieddata' = Top.adata
  /\ appliedcode' = Top.acode
  /\ stack' = Below
  /\ last' = LastReturn("switchReturn", Top)
  /\ UNCHANGED << currentpath, terminated, state, pathcodearray, napplies, aborted >>
  /\ UNCHANGED heapvars
  /\ UNCHANGED classvars

\* traverse() has returned to switchTo...Traversal: restore previous state
SwitchReturn ==
  /\ InTraversal
  /\ Top.kind = "switch"
  /\ currentpath' = Top.path
  /\ currentpathcode' = Top.code
  /\ applieddata' = Top.adata
  /\ appliedcode' = Top.acode
  /\ stack' = Below
  /\ last' = LastReturn("switchReturn", Top)
  /\ UNCHANGED << terminated, state, pathcodearray, napplies, aborted >>
  /\ UNCHANGED heapvars
  /\ UNCHANGED classvars

(***************************************************************************)
(* getWhatAppliedTo() and the accessors of what the action is applied to.  *)
(* NULL stands for the null node pointer, NullPath and NullList for the    *)
(* null path and path list pointers.                                       *)
(***************************************************************************)
NullPath == << Step(NULL, -1) >>

NullList == << NullPath >>

getWhatAppliedTo == appliedcode

\* faulty variant of getNodeAppliedTo: the applied code is compared with
\* the wrong value
getNodeAppliedTo_WrongCode ==
  IF appliedcode = PATH THEN applieddata.node ELSE NULL

getNodeAppliedTo ==
  IF appliedcode = NODE THEN applieddata.node ELSE NULL

getPathAppliedTo ==
  IF appliedcode = PATH THEN applieddata.path ELSE NullPath

getPathListAppliedTo ==
  IF appliedcode = PATH_LIST THEN applieddata.pathlist ELSE NullList

getOriginalPathListAppliedTo ==
  IF appliedcode = PATH_LIST THEN applieddata.origpathlist ELSE NullList

(***************************************************************************)
(* invalidateState(), called between traversals                            *)
(***************************************************************************)
InvalidateState ==
  /\ stack = <<>>
  /\ ~aborted
  /\ state.ptr # 0
  /\ state' = [NoState EXCEPT !.made = state.made]
  /\ last' = NoLast
  /\ UNCHANGED << appliedcode, applieddata, currentpath, currentpathcode, terminated,
                  pathcodearray, stack, napplies, aborted >>
  /\ UNCHANGED heapvars
  /\ UNCHANGED classvars

(***************************************************************************)
(* The type registry and the class initialisation                          *)
(***************************************************************************)
\* SoType::fromName
fromName(registry, name) ==
  IF \E i \in 1..Len(registry) : registry[i].name = name
    THEN CHOOSE i \in 1..Len(registry) : registry[i].name = name
    ELSE badType

\* the registry after createType(parent, name): a name is registered once
Registered(registry, parent, name) ==
  IF fromName(registry, name) # badType THEN registry
  ELSE Append(registry, [name |-> name, parent |-> parent])

\* SoType::createType(parent, name)
createType(registry, parent, name) == fromName(Registered(registry, parent, name), name)

\* the type of the parent class, badType for a class without parent
ParentType(class) ==
  IF ClassParent[class] = "none" THEN badType ELSE classTypeId[ClassParent[class]]

\* the parent type initClass() passes to createType: SoMFVec3f passes
\* SoMFVec3f::getClassTypeId(), the other classes the type of their parent
CreateParent(class) ==
  IF class = "SoMFVec3f" THEN classTypeId[class] ELSE ParentType(class)

RECURSIVE isDerivedFrom(_, _, _)
\* SoType::isDerivedFrom: the type is the other one or has it among the
\* parents of its parents
isDerivedFrom(registry, type, other) ==
  IF type = badType THEN FALSE
  ELSE IF type = other THEN TRUE
  ELSE isDerivedFrom(registry, registry[type].parent, other)

\* faulty variant of ClassTypeAfterInit: the type created is not stored
ClassTypeAfterInit_NotStored(class) == classTypeId[class]

\* classTypeId of the class when initClass() returns
ClassTypeAfterInit(class) == createType(types, CreateParent(class), class)

\* getClassTypeId()
getClassTypeId(class) == classTypeId[class]

\* getTypeId() of an instance of the class
getFieldTypeId(class) == classTypeId[class]

\* initClass() of a class: once, after the initClass() of its parent
InitClass(class) ==
  /\ class \notin initcalls
  /\ ClassParent[class] # "none" => ClassParent[class] \in initcalls
  /\ types' = Registered(types, CreateParent(class), class)
  /\ classTypeId' = [classTypeId EXCEPT ![class] = ClassTypeAfterInit(class)]
  /\ initcalls' = initcalls \cup {class}
  /\ UNCHANGED << instances, addedmethods, traversalMethods, shadervars >>
  /\ UNCHANGED actionvars

\* an instance of the class is constructed
NewInstance(class) ==
  /\ instances[class] < MaxInstances
  /\ instances' = [instances EXCEPT ![class] = @ + 1]
  /\ UNCHANGED << types, classTypeId, initcalls, addedmethods, traversalMethods,
                  shadervars >>
  /\ UNCHANGED actionvars

(***************************************************************************)
(* addMethod(): a method is added to the list of an action class, between  *)
(* applications                                                            *)
(***************************************************************************)
AddMethod(method) ==
  /\ stack = <<>>
  /\ ~aborted
  /\ Len(addedmethods) < MaxAdded
  /\ \A k \in 1..Len(addedmethods) : addedmethods[k] # method
  /\ addedmethods' = Append(addedmethods, method)
  /\ last' = NoLast
  /\ UNCHANGED << appliedcode, applieddata, currentpath, currentpathcode, terminated,
                  state, pathcodearray, stack, napplies, aborted >>
  /\ UNCHANGED heapvars
  /\ UNCHANGED << traversalMethods, typevars, shadervars >>

\* nullAction has an empty body: only a method that was added calls the kernel
MethodPushCurPath(childindex, node) ==
  /\ InTraversal
  /\ Top.method # nullAction
  /\ PushCurPath(childindex, node)

MethodSetTerminated(flag) ==
  /\ InTraversal
  /\ Top.method # nullAction
  /\ SetTerminated(flag)

(***************************************************************************)
(* SoState: what node action methods do with the state that getState()     *)
(* returns.  A scope opened by push() is a call in progress of kind         *)
(* "scope": the method closes it with pop() before it returns.             *)
(***************************************************************************)
\* the top element of an index
TopElement(st, index) ==
  IF st.elems[index] = <<>> THEN InitialElement
  ELSE st.elems[index][Len(st.elems[index])]

\* get(index) initialises the element of the index if there is none
Initialised(st, index) ==
  IF st.elems[index] = <<>> THEN [st EXCEPT !.elems[index] = << InitialElement >>]
  ELSE st

\* getWritable(index): the top element if it is of the current depth,
\* otherwise a new top element of the current depth
Written(st, index) ==
  LET s1 == Initialised(st, index)
  IN  IF TopElement(s1, index).depth = s1.depth THEN s1
      ELSE [s1 EXCEPT !.elems[index] =
                        Append(@, [id |-> s1.nelems + 1, depth |-> s1.depth]),
                      !.nelems = @ + 1]

\* faulty variant of Popped: the elements of the closed scope stay on top
Popped_KeepsElements(st) == [st EXCEPT !.depth = @ - 1]

\* pop(): the elements of the scope being closed are discarded
Popped(st) ==
  [st EXCEPT
     !.elems = [index \in StackIndices |->
                  IF st.elems[index] # <<>> /\ TopElement(st, index).depth = st.depth
                    THEN SubSeq(st.elems[index], 1, Len(st.elems[index]) - 1)
                    ELSE st.elems[index]],
     !.depth = @ - 1]

StateGet(index) ==
  /\ InTraversal
  /\ state.elems[index] = <<>>
  /\ state' = Initialised(state, index)
  /\ last' = NoLast
  /\ UNCHANGED << appliedcode, applieddata, currentpath, currentpathcode, terminated,
                  pathcodearray, stack, napplies, aborted >>
  /\ UNCHANGED heapvars
  /\ UNCHANGED classvars

StateGetWritable(index) ==
  /\ InTraversal
  /\ Written(state, index).nelems <= MaxElements
  /\ state' = Written(state, index)
  /\ last' = NoLast
  /\ UNCHANGED << appliedcode, applieddata, currentpath, currentpathcode, terminated,
                  pathcodearray, stack, napplies, aborted >>
  /\ UNCHANGED heapvars
  /\ UNCHANGED classvars

StatePush ==
  /\ InTraversal
  /\ Len(stack) < MaxStack
  /\ state.depth < MaxDepth
  /\ state' = [state EXCEPT !.depth = @ + 1]
  /\ stack' = Append(stack, Frame("scope", CurNode, ""))
  /\ last' = NoLast
  /\ UNCHANGED << appliedcode, applieddata, currentpath, currentpathcode, terminated,
                  pathcodearray, napplies, aborted >>
  /\ UNCHANGED heapvars
  /\ UNCHANGED classvars

StatePop ==
  /\ InTraversal
  /\ Top.kind = "scope"
  /\ state' = Popped(state)
  /\ stack' = Below
  /\ last' = NoLast
  /\ UNCHANGED << appliedcode, applieddata, currentpath, currentpathcode, terminated,
                  pathcodearray, napplies, aborted >>
  /\ UNCHANGED heapvars
  /\ UNCHANGED classvars

(***************************************************************************)
(* SoShaderProgram: the shaderObject field and the children hold nodes,    *)
(* VS and FS shader objects and N a node of another class.                 *)
(***************************************************************************)
ShaderNodes == {"VS", "FS", "N"}

\* node->isOfType(SoShaderObject::getClassTypeId())
isShaderObject(node) == node \in {"VS", "FS"}

\* SoShaderObject::containStateMatrixParameters(): VS has such parameters
containStateMatrixParameters(node) == node = "VS"

\* SoNodeList::remove(idx), idx 0-based
removeAt(list, idx) == SubSeq(list, 1, idx) \o SubSeq(list, idx + 2, Len(list))

\* SoNodeList::find(node): the first position (0-based) of the node, or -1
find(list, node) ==
  IF \E i \in 1..Len(list) : list[i] = node
    THEN (CHOOSE i \in 1..Len(list) :
            list[i] = node /\ \A j \in 1..(i - 1) : list[j] # node) - 1
    ELSE -1

\* previousChildren after removeFromPreviousChildren(shader)
removeFromPreviousChildren(previous, shader) ==
  IF Len(previous) = 0 THEN previous
  ELSE IF find(previous, shader) >= 0 THEN removeAt(previous, find(previous, shader))
  ELSE previous

RECURSIVE LoadShaderObjects(_, _, _)
\* previousChildren after the two loops that load the shader objects, over
\* the entries of the field and the children from position i (0-based) on
LoadShaderObjects(previous, nodes, i) ==
  IF i >= Len(nodes) THEN previous
  ELSE LoadShaderObjects(IF isShaderObject(nodes[i + 1])
                           THEN removeFromPreviousChildren(previous, nodes[i + 1])
                           ELSE previous,
                         nodes, i + 1)

\* the first loop of updateProgramAndPreviousChildren, from the last entry
\* down: the nodes removeGLShaderFromGLProgram is called on
Detached(previous) == [i \in 1..Len(previous) |-> previous[Len(previous) + 1 - i]]

\* faulty variant of PreviousAfterUpdate: the loop over the children is
\* missing
PreviousAfterUpdate_FieldOnly == shaderObject

\* previousChildren when updateProgramAndPreviousChildren returns
PreviousAfterUpdate == shaderObject \o children

\* flag as the loops that update the shader object parameters leave it
ContainsFlag(nodes) ==
  \E i \in 1..Len(nodes) :
    isShaderObject(nodes[i]) /\ containStateMatrixParameters(nodes[i])

\* faulty variant of ShouldTraverseAfterRender: the flag is not cleared
ShouldTraverseAfterRender_Kept == shouldTraverseShaderObjects

\* shouldTraverseShaderObjects when GLRender returns
ShouldTraverseAfterRender == FALSE

\* SoShaderProgramP::GLRender.  Calling removeGLShaderFromGLProgram on a
\* node that is no SoShaderObject is undefined: crashes tells whether the
\* call ends the program or passes unnoticed.
GLRender(crashes) ==
  /\ ~crashed
  /\ LET nodes == shaderObject \o children
         left == LoadShaderObjects(previousChildren, nodes, 0)
         detached == IF shouldTraverseShaderObjects THEN Detached(left) ELSE <<>>
     IN  /\ crashes => \E i \in 1..Len(detached) : ~isShaderObject(detached[i])
         /\ crashed' = crashes
         /\ previousChildren' =
              IF shouldTraverseShaderObjects THEN PreviousAfterUpdate
              ELSE previousChildren
         /\ doesContainStateMatrixParameters' =
              IF shouldTraverseShaderObjects THEN ContainsFlag(nodes)
              ELSE doesContainStateMatrixParameters
         /\ lastRender' =
              [done |-> TRUE, first |-> ~hasRendered, fired |-> sensorFired,
               traversed |-> shouldTraverseShaderObjects,
               recomputed |-> shouldTraverseShaderObjects,
               detached |-> detached,
               updated |-> (~shouldTraverseShaderObjects
                              /\ doesContainStateMatrixParameters)]
  /\ shouldTraverseShaderObjects' = ShouldTraverseAfterRender
  /\ hasRendered' = TRUE
  /\ sensorFired' = FALSE
  /\ UNCHANGED << shaderObject, children >>
  /\ UNCHANGED << actionvars, traversalMethods, addedmethods, typevars >>

\* SoShaderProgramP::sensorCB, called by the node sensor attached to the
\* SoShaderProgram
sensorCB ==
  /\ ~crashed
  /\ shouldTraverseShaderObjects' = TRUE
  /\ sensorFired' = TRUE
  /\ lastRender' = NoRender
  /\ UNCHANGED << shaderObject, children, previousChildren,
                  doesContainStateMatrixParameters, hasRendered, crashed >>
  /\ UNCHANGED << actionvars, traversalMethods, addedmethods, typevars >>

\* the application changes the shaderObject field and the children between
\* renders: an entry is added at the end (a node may be entered twice) or
\* taken out
SetEntries(field, kids) ==
  /\ ~crashed
  /\ Len(field) + Len(kids) <= MaxEntries
  /\ shaderObject' = field
  /\ children' = kids
  /\ lastRender' = NoRender
  /\ UNCHANGED << previousChildren, shouldTraverseShaderObjects,
                  doesContainStateMatrixParameters, hasRendered, sensorFired,
                  crashed >>
  /\ UNCHANGED << actionvars, traversalMethods, addedmethods, typevars >>

\* shaderObject.set1Value(num, node)
AppendShaderObject(node) == SetEntries(Append(shaderObject, node), children)

\* shaderObject.deleteValues(idx, 1), idx 0-based
DeleteShaderObject(idx) ==
  /\ idx < Len(shaderObject)
  /\ SetEntries(removeAt(shaderObject, idx), children)

\* addChild(node)
AddChild(node) == SetEntries(shaderObject, Append(children, node))

\* removeChild(idx), idx 0-based
RemoveChild(idx) ==
  /\ idx < Len(children)
  /\ SetEntries(shaderObject, removeAt(children, idx))

(***************************************************************************)
(* What node action methods and the application do besides calling the     *)
(* kernel: give up a reference to a node, and fail with an exception.      *)
(***************************************************************************)
\* all applications in progress are apply(node): no path in use keeps the
\* node alive by itself
OnlyNodeApplies ==
  \A k \in 1..Len(stack) : stack[k].kind = "apply" => stack[k].branch = "node"

\* SoBase::unref by the application of its own reference to node n, during
\* a traversal: the node is destroyed when the count reaches zero
UserUnref(n) ==
  /\ InTraversal
  /\ OnlyNodeApplies
  /\ n \in Heads \ (dropped \cup freed)
  /\ dropped' = dropped \cup {n}
  /\ refcount' = [refcount EXCEPT !.node = unrefNoDelete(@, n)]
  /\ freed' = IF refcount.node[n] - 1 = 0 THEN freed \cup {n} ELSE freed
  /\ last' = NoLast
  /\ UNCHANGED << appliedcode, applieddata, currentpath, currentpathcode, terminated,
                  state, pathcodearray, stack, napplies, aborted >>
  /\ UNCHANGED classvars

RECURSIVE UnwindLists(_, _)
\* the path counts after the local path lists of the calls of the frames
\* 1..k have gone out of scope
UnwindLists(counts, k) ==
  IF k = 0 THEN counts
  ELSE LET f == stack[k]
           pl == (IF k = Len(stack) THEN applieddata ELSE stack[k + 1].adata).pathlist
           br == IF f.kind = "apply" THEN f.branch ELSE ""
       IN  UnwindLists(ListUnrefs(counts, br, IF br = "multi" THEN f.sorted ELSE pl,
                                   IF br = "multi" THEN pl ELSE <<>>),
                       k - 1)

\* the position in the stack of the innermost apply() in progress
InnermostApply ==
  CHOOSE k \in 1..Len(stack) :
    /\ stack[k].kind = "apply"
    /\ \A j \in (k + 1)..Len(stack) : stack[j].kind # "apply"

\* a node action method throws: the exception passes through traverse(),
\* beginTraversal() and apply(), none of which catches it or has a local
\* whose destructor restores anything but the local path lists
Raise ==
  /\ InTraversal
  /\ refcount' = UnwindLists(refcount, Len(stack))
  /\ stack' = <<>>
  /\ last' = LastReturn("applyRaise", stack[InnermostApply])
  /\ UNCHANGED << appliedcode, applieddata, currentpath, currentpathcode, terminated,
                  state, pathcodearray, napplies, aborted, dropped, freed >>
  /\ UNCHANGED classvars

(***************************************************************************)
(* One application of the action to any root, path or path list; the node  *)
(* action methods push, pop, ask for the path code and terminate.          *)
(***************************************************************************)
FirstApply == stack = <<>> /\ napplies = 0

Next ==
  \/ \E root \in RootPool : FirstApply /\ ApplyNode(root)
  \/ \E path \in PathPool \cup {EmptyPath} : FirstApply /\ ApplyPath(path)
  \/ \E pathlist \in ListPool, obeysrules \in BOOLEAN :
       FirstApply /\ ApplyPathList(pathlist, obeysrules)
  \/ ApplyReturn
  \/ NextHead
  \/ \E childindex \in 0..1, node \in Nodes \cup {NULL} : PushCurPath(childindex, node)
  \/ PopCurPathPrev
  \/ PushCurPathNull
  \/ \E childindex \in 0..1, node \in Nodes \cup {NULL} : PopPushCurPath(childindex, node)
  \/ PopCurPath
  \/ GetPathCode
  \/ SetTerminated(TRUE)

Spec == Init /\ [][Next]_vars

(***************************************************************************)
(* Re-entry: node action methods also apply the action again, and the      *)
(* application applies the action several times and invalidates the state  *)
(* in between.                                                             *)
(***************************************************************************)
\* the paths and path lists of the re-entrant applications
ReentryPaths == { MkPath("G0", <<0>>), MkPath("H0", <<>>) }

ReentryLists == { <<>>, << MkPath("H0", <<>>), MkPath("G0", <<0>>) >> }

NextReentry ==
  \/ \E root \in RootPool : ApplyNode(root)
  \/ \E path \in ReentryPaths : ApplyPath(path)
  \/ \E pathlist \in ReentryLists : ApplyPathList(pathlist, FALSE)
  \/ ApplyReturn
  \/ NextHead
  \/ \E childindex \in 0..1, node \in Nodes \cup {NULL} : PushCurPath(childindex, node)
  \/ PopCurPathPrev
  \/ \E flag \in BOOLEAN : SetTerminated(flag)
  \/ InvalidateState

SpecReentry == Init /\ [][NextReentry]_vars

(***************************************************************************)
(* Lists with several heads: one application to a path list of up to       *)
(* MaxMulti paths; group nodes stop traversing children once terminated.   *)
(***************************************************************************)
\* a group node traverses its children the way SoChildList::traverse does:
\* it asks hasTerminated() before going on to a child
GroupPushCurPath(childindex, node) ==
  /\ ~terminated
  /\ PushCurPath(childindex, node)

NextMulti ==
  \/ \E pathlist \in MultiPool, obeysrules \in BOOLEAN :
       FirstApply /\ ApplyPathList(pathlist, obeysrules)
  \/ ApplyReturn
  \/ NextHead
  \/ \E childindex \in 0..1, node \in Nodes \cup {NULL} : GroupPushCurPath(childindex, node)
  \/ PopCurPathPrev
  \/ GetPathCode
  \/ SetTerminated(TRUE)

SpecMulti == Init /\ [][NextMulti]_vars

(***************************************************************************)
(* References: applications, nested ones too, during which the application *)
(* gives up node references and node action methods throw.                 *)
(***************************************************************************)
NextRef ==
  \/ \E root \in RootPool : ApplyNode(root)
  \/ \E path \in ReentryPaths : ApplyPath(path)
  \/ \E pathlist \in ReentryLists : ApplyPathList(pathlist, FALSE)
  \/ ApplyReturn
  \/ NextHead
  \/ \E childindex \in 0..1, node \in Nodes \cup {NULL} : PushCurPath(childindex, node)
  \/ PopCurPathPrev
  \/ \E n \in Heads : UserUnref(n)
  \/ Raise

SpecRef == Init /\ [][NextRef]_vars

(***************************************************************************)
(* Switching: during one application of the action, node action methods    *)
(* switch to the traversal of another path or node.                        *)
(***************************************************************************)
NextSwitch ==
  \/ \E root \in RootPool : FirstApply /\ ApplyNode(root)
  \/ \E path \in ReentryPaths : FirstApply /\ ApplyPath(path)
  \/ \E pathlist \in ReentryLists : FirstApply /\ ApplyPathList(pathlist, FALSE)
  \/ ApplyReturn
  \/ NextHead
  \/ \E path \in PathPool : SwitchToPathTraversal(path)
  \/ \E node \in RootPool \ {NULL} : SwitchToNodeTraversal(node)
  \/ SwitchReturn
  \/ \E childindex \in 0..1, node \in Nodes \cup {NULL} : PushCurPath(childindex, node)
  \/ PopCurPathPrev
  \/ GetPathCode

SpecSwitch == Init /\ [][NextSwitch]_vars

(***************************************************************************)
(* State: node action methods open and close scopes of the state and read  *)
(* and write its elements, during applications to the node H0, nested ones *)
(* too; the methods are those of H0.                                       *)
(***************************************************************************)
NextState ==
  \/ ApplyNode("H0")
  \/ ApplyReturn
  \/ \E index \in StackIndices : StateGet(index)
  \/ \E index \in StackIndices : StateGetWritable(index)
  \/ StatePush
  \/ StatePop

SpecState == Init /\ [][NextState]_vars

(***************************************************************************)
(* Dispatch: methods are added to the lists of the action classes in any   *)
(* order, between applications of the action to a node.                    *)
(***************************************************************************)
InitDispatch == InitWith(<<>>)

NextDispatch ==
  \/ \E method \in Methods : AddMethod(method)
  \/ \E root \in RootPool : stack = <<>> /\ ApplyNode(root)
  \/ ApplyReturn
  \/ \E childindex \in 0..1, node \in Nodes \cup {NULL} : MethodPushCurPath(childindex, node)
  \/ PopCurPathPrev
  \/ MethodSetTerminated(TRUE)

SpecDispatch == InitDispatch /\ [][NextDispatch]_vars

(***************************************************************************)
(* Types: the field classes are initialised and instances are made.        *)
(***************************************************************************)
NextTypes ==
  \/ \E class \in DOMAIN ClassParent : InitClass(class)
  \/ \E class \in ConcreteClasses : NewInstance(class)

SpecTypes == Init /\ [][NextTypes]_vars

(***************************************************************************)
(* Shader program: the application edits the shaderObject field and the    *)
(* children of a SoShaderProgram, the node sensor fires and the node is    *)
(* rendered, in any order.                                                 *)
(***************************************************************************)
NextShader ==
  \/ \E crashes \in BOOLEAN : GLRender(crashes)
  \/ sensorCB
  \/ \E node \in ShaderNodes : AppendShaderObject(node)
  \/ \E idx \in 0..(MaxEntries - 1) : DeleteShaderObject(idx)
  \/ \E node \in ShaderNodes : AddChild(node)
  \/ \E idx \in 0..(MaxEntries - 1) : RemoveChild(idx)

SpecShader == Init /\ [][NextShader]_vars

(***************************************************************************)
(* Scratch buffers: node action methods keep the indices getPathCode gave  *)
(* them while they push children, apply the action to another path and     *)
(* switch to the traversal of another path.                                *)
(***************************************************************************)
NextScratch ==
  \/ \E path \in PathPool : ApplyPath(path)
  \/ ApplyReturn
  \/ \E path \in PathPool : SwitchToPathTraversal(path)
  \/ SwitchReturn
  \/ \E childindex \in 0..1, node \in Nodes \cup {NULL} : PushCurPath(childindex, node)
  \/ PopCurPathPrev
  \/ KeepPathCode

SpecScratch == Init /\ [][NextScratch]_vars

(***************************************************************************)
(* Properties                                                              *)
(***************************************************************************)
\* a node action method is running below the head of an apply() traversal
\* that has descended by pushCurPath(idx, node) only
PushedOnly == \A k \in 2..Len(stack) : stack[k].kind = "push"

\* C1: re-entry isolation.  When an apply(node) or apply(path) called from a
\* node action method returns, appliedcode, applieddata, currentpathcode and
\* currentpath are what they were just before the call.
C1_ReentryIsolation ==
  (last.op = "applyReturn" /\ stack # <<>> /\ last.frame.branch \in {"node", "path"}) =>
    /\ appliedcode = last.frame.acode
    /\ applieddata = last.frame.adata
    /\ currentpathcode = last.frame.code
    /\ currentpath = last.frame.path

\* the path code of a position cp relative to the target path P: OFF_PATH
\* once an index differs from P's, IN_PATH on a proper prefix of P,
\* BELOW_PATH at the end of P and under it
CodeOnPath(cp, P) ==
  IF \E k \in 2..Len(cp) : k <= Len(P) /\ cp[k].index # P[k].index THEN OFF_PATH
  ELSE IF Len(cp) < Len(P) THEN IN_PATH
  ELSE BELOW_PATH

\* C2: path-code correctness for apply(path).  While pushCurPath(idx, node)
\* follows the target path the code is IN_PATH above the path's end and
\* BELOW_PATH from its end on; the first push that leaves the path sets
\* OFF_PATH, which every push below keeps.
C2_PathCodeCorrect ==
  (appliedcode = PATH /\ stack # <<>> /\ PushedOnly /\ ~aborted) =>
    currentpathcode = CodeOnPath(currentpath, applieddata.path)

\* C2 happens: the traversal has followed a path of two steps to its end,
\* and it has left a path of two steps at the second step
C2_Witness ==
  /\ appliedcode = PATH /\ Len(stack) = 3 /\ PushedOnly
  /\ Len(applieddata.path) = 3
  /\ \/ currentpath = applieddata.path /\ currentpathcode = BELOW_PATH
     \/ stack[3].code = IN_PATH /\ currentpathcode = OFF_PATH

\* the path code the traversal has to start with, by what it is applied to
EntryCode ==
  CASE appliedcode = NODE -> NO_PATH
    [] appliedcode = PATH ->
         IF Len(applieddata.path) > 1 THEN IN_PATH ELSE BELOW_PATH
    [] OTHER ->
         IF Len(applieddata.pathlist[1]) > 1 THEN IN_PATH ELSE BELOW_PATH

\* C3: at the head of the traversal the path code is NO_PATH for
\* apply(node), and for apply(path) and apply(pathlist) IN_PATH if the path
\* (the first path of the list the traversal uses) has more than one node,
\* else BELOW_PATH.
C3_EntryCode == (Len(stack) = 1 /\ Top.kind = "apply") => currentpathcode = EntryCode

\* the path code a push has to produce from IN_PATH under a path list
CodeOnList(cp, pl) ==
  IF ~\E k \in 1..Len(pl) : containsPath(pl[k], cp) THEN OFF_PATH
  ELSE IF \E k \in 1..Len(pl) : containsPath(pl[k], cp) /\ Len(pl[k]) = Len(cp)
    THEN BELOW_PATH
  ELSE IN_PATH

C5_OnlyInPathChanges ==
  /\ (stack # <<>> /\ Top.kind \in {"push", "pushnull"} /\ Top.code # IN_PATH) =>
       currentpathcode = Top.code
  /\ last.op = "popCurPathVoid" => currentpathcode = last.code
  /\ (appliedcode = NODE /\ stack # <<>>) => currentpathcode = NO_PATH

\* C5 happens: a child was pushed with pushCurPath(idx, node) while the
\* code was OFF_PATH
C5_Witness ==
  /\ stack # <<>> /\ Top.kind = "push" /\ Top.code = OFF_PATH
  /\ currentpathcode = OFF_PATH

RECURSIVE Dedup(_, _)
\* seq without the values of seen and without repetitions, in order
Dedup(seq, seen) ==
  IF Len(seq) = 0 THEN <<>>
  ELSE IF Head(seq) \in seen THEN Dedup(Tail(seq), seen)
  ELSE <<Head(seq)>> \o Dedup(Tail(seq), seen \cup {Head(seq)})

RECURSIVE NextIndices(_, _, _)
\* the index at position Len(cp) of the paths of pl from number k on that
\* are longer than cp and contain it
NextIndices(pl, cp, k) ==
  IF k > Len(pl) THEN <<>>
  ELSE IF Len(pl[k]) > Len(cp) /\ containsPath(pl[k], cp)
    THEN <<pl[k][Len(cp) + 1].index>> \o NextIndices(pl, cp, k + 1)
  ELSE NextIndices(pl, cp, k + 1)

C7_PathIndex ==
  (last.op = "getPathCode" /\ last.code = IN_PATH /\ appliedcode = PATH) =>
    pathcodearray[Len(currentpath)] = << applieddata.path[Len(currentpath) + 1].index >>

\* C7 happens: getPathCode one step down a path of two steps
C7_Witness ==
  /\ last.op = "getPathCode" /\ last.code = IN_PATH /\ appliedcode = PATH
  /\ Len(currentpath) = 2
  /\ pathcodearray[2] = <<1>>

\* C8: push/pop round trip.  popCurPath(prev), with prev the path code
\* before the matching pushCurPath(idx, node) and balanced pushes and pops
\* in between, gives back the current path and the path code of before
\* the push.
C8_RoundTrip ==
  (last.op = "popCurPath" /\ ~last.frame.dirty) =>
    /\ currentpath = last.frame.path
    /\ currentpathcode = last.frame.code

\* C8 happens: back from a child that was OFF_PATH to its parent, IN_PATH
C8_Witness ==
  /\ last.op = "popCurPath" /\ last.code = OFF_PATH
  /\ currentpathcode = IN_PATH
  /\ Len(currentpath) >= 1

\* C9: every beginTraversal(head) that apply() invokes is followed by an
\* endTraversal(head) before apply() returns, in every branch.
C9_EndTraversal == last.op = "applyReturn" => last.frame.ends = last.frame.begins

\* C10: after an apply() during which setTerminated(TRUE) was not called,
\* hasTerminated() is FALSE, whatever it was before (null node and empty
\* path list included).
C10_ClearsTerminated ==
  (last.op = "applyReturn" /\ ~last.frame.sett) => terminated = FALSE

\* what the call of frame k of the stack has set the action to be applied to
AppliedAt(k) == IF k = Len(stack) THEN applieddata ELSE stack[k + 1].adata

\* the call of frame k holds a reference to x: its count is above the one at
\* the call
PinnedNode(k, x) == HeldCounts.node[x] > stack[k].refs.node[x]

PinnedPath(k, x) == HeldCounts.path[x] > stack[k].refs.path[x]

\* C11: every apply overload pins its input.  While the traversal of an
\* apply() is in progress, the reference count of the root node applied to,
\* of the path applied to, and of every path of the path list applied to is
\* greater than it was when apply() was called.
C11_InputsPinned ==
  ~aborted =>
    \A k \in 1..Len(stack) :
      stack[k].kind = "apply" =>
        CASE stack[k].branch = "node" -> PinnedNode(k, stack[k].node)
          [] stack[k].branch = "path" -> PinnedPath(k, AppliedAt(k).path)
          [] OTHER -> \A j \in 1..Len(stack[k].arg) : PinnedPath(k, stack[k].arg[j])

\* C12: reference-count balance of apply(node) and apply(path).  When the
\* call returns, every count is what it was at the call, apart from the
\* references the application itself gave up meanwhile; a root node whose
\* reference the application gives up during the traversal keeps a count of
\* at least 1 while the traversal runs and is not destroyed, neither during
\* the traversal nor by the return of apply().
C12_RefCountBalance ==
  /\ (last.op = "applyReturn" /\ last.frame.branch \in {"node", "path"}) =>
       HeldCounts = last.frame.refs
  /\ (last.op = "applyReturn" /\ last.frame.branch = "node" /\ last.frame.node # NULL) =>
       last.frame.node \notin freed
  /\ ~aborted =>
       \A k \in 1..Len(stack) :
         (stack[k].kind = "apply" /\ stack[k].branch = "node") =>
           /\ refcount.node[stack[k].node] >= 1
           /\ stack[k].node \notin freed

\* apply(root) has returned after the application gave up its reference to
\* root during the traversal: the count is 0 and root still exists
C12_Witness ==
  /\ last.op = "applyReturn"
  /\ last.frame.branch = "node"
  /\ last.frame.node \in dropped
  /\ refcount.node[last.frame.node] = 0
  /\ last.frame.node \notin freed

\* C13: release on every exit.  When an exception thrown by a node action
\* method has left apply(), the reference counts and appliedcode,
\* applieddata and currentpathcode are what they were when that apply() was
\* called.
C13_ReleaseOnRaise ==
  last.op = "applyRaise" =>
    /\ HeldCounts = last.frame.refs
    /\ appliedcode = last.frame.acode
    /\ applieddata = last.frame.adata
    /\ currentpathcode = last.frame.code

\* the paths with the given head of the sorted, uniquified list of L
HeadGroup(L, head) == SelectSeq(SortedList(L), LAMBDA q : getHead(q) = head)

\* the heads of the paths of L
HeadsOf(L) == { getHead(L[j]) : j \in 1..Len(L) }

\* C14: path-list multi-head equivalence.  apply(L, FALSE) on a list with
\* several heads traverses the heads in sorted order, one traversal each:
\* during the traversal number n the list applied to is exactly the paths of
\* the n-th head in the sorted, uniquified list, and the traversal starts as
\* apply of that sub-list does (current path at the head, path code from
\* the sub-list's first path); without termination there are as many
\* traversals as heads.
C14_MultiHead ==
  /\ (~aborted /\ stack # <<>> /\ stack[1].kind = "apply" /\ stack[1].branch = "multi") =>
       LET f == stack[1]
           sub == HeadGroup(f.arg, f.node)
       IN  /\ AppliedAt(1).pathlist = sub
           /\ f.begins = Cardinality({ h \in HeadsOf(f.arg) : Addr(h) <= Addr(f.node) })
           /\ Len(stack) = 1 =>
                /\ appliedcode = PATH_LIST
                /\ currentpath = setHead(EmptyPath, f.node)
                /\ currentpathcode = ListStartCode(sub)
  /\ (last.op = "applyReturn" /\ last.frame.branch = "multi" /\ ~last.frame.sett) =>
       last.frame.begins = Cardinality(HeadsOf(last.frame.arg))

\* the second head of a list is being traversed after a first head that
\* had two paths
C14_Witness ==
  /\ Len(stack) = 1
  /\ Top.branch = "multi"
  /\ Top.begins = 2
  /\ Len(Top.sorted) = 3
  /\ ~aborted

\* C15: termination at head boundaries.  The multi-head loop of
\* apply(pathlist, FALSE) starts the traversal of a further head only while
\* the terminated flag is not set; with the flag set, the one thing apply()
\* can do is return.
C15_StopsAtHeadBoundary ==
  /\ last.op = "nextHead" => ~terminated
  /\ (~aborted /\ Len(stack) = 1 /\ Top.kind = "apply" /\ terminated) =>
       (ENABLED ApplyReturn /\ ~ENABLED NextHead)

\* terminated during the first head's traversal, with a head left over
C15_Witness ==
  /\ Len(stack) = 1
  /\ Top.branch = "multi"
  /\ terminated
  /\ Top.i < Len(Top.sorted)
  /\ ~aborted

\* C16: termination is visible after apply.  After setTerminated(TRUE)
\* during a traversal whose group nodes ask hasTerminated() between
\* children, no further child is entered, and when apply() has returned
\* hasTerminated() is still TRUE.
C16_TerminatedAfterApply ==
  /\ (last.op = "applyReturn" /\ last.frame.sett) => terminated
  /\ (~aborted /\ terminated) => \A k \in 1..Len(stack) : stack[k].sett

\* apply() has returned from a traversal in which a node action method
\* called setTerminated(TRUE)
C16_Witness ==
  /\ last.op = "applyReturn"
  /\ last.frame.sett
  /\ terminated
  /\ stack = <<>>

\* C17: switchToPathTraversal and switchToNodeTraversal preserve the frame.
\* When either returns, appliedcode, applieddata, currentpathcode and the
\* whole current path are what they were at the call.
C17_SwitchPreservesFrame ==
  last.op = "switchReturn" =>
    /\ appliedcode = last.frame.acode
    /\ applieddata = last.frame.adata
    /\ currentpathcode = last.frame.code
    /\ currentpath = last.frame.path

\* a switchTo...Traversal has returned whose traversal ended with another
\* current path than the one at the call
C17_Witness ==
  /\ last.op = "switchReturn"
  /\ last.path # currentpath
  /\ currentpath = last.frame.path

\* C18: switchToPathTraversal and switchToNodeTraversal never invoke
\* beginTraversal or endTraversal: the calls of both are those of the
\* apply() frames only.
C18_SwitchNeverBegins ==
  /\ \A k \in 1..Len(stack) :
       stack[k].kind = "switch" => (stack[k].begins = 0 /\ stack[k].ends = 0)
  /\ last.op = "switchReturn" => (last.frame.begins = 0 /\ last.frame.ends = 0)

\* a node is being traversed by switchToNodeTraversal inside an apply()
\* that has called beginTraversal once
C18_Witness ==
  /\ Len(stack) >= 2
  /\ Top.kind = "switch"
  /\ Top.branch = "node"
  /\ stack[1].begins = 1
  /\ ~aborted

\* the head of what the action is applied to at present
AppliedHead ==
  CASE appliedcode = NODE -> applieddata.node
    [] appliedcode = PATH -> getHead(applieddata.path)
    [] OTHER -> getHead(applieddata.pathlist[1])

\* C19: during any traversal, whether started by apply() or by
\* switchToPathTraversal / switchToNodeTraversal, the head of the current
\* path is the head of what the action is applied to.
C19_HeadIsAppliedHead ==
  InTraversal => getHead(currentpath) = AppliedHead

\* C20: path-list normalisation.  During apply(L, TRUE) the list applied to
\* is L; during apply(L, FALSE) it is the sorted, uniquified copy of L (in
\* the multi-head case its paths with the head being traversed); in both
\* cases the original list is L as it was passed.
C20_Normalisation ==
  (~aborted /\ stack # <<>> /\ stack[1].kind = "apply"
     /\ stack[1].branch \in {"obeys", "single", "multi"}) =>
    LET f == stack[1]
        d == AppliedAt(1)
    IN  /\ d.origpathlist = f.arg
        /\ f.branch = "obeys" => d.pathlist = f.arg
        /\ f.branch = "single" => d.pathlist = SortedList(f.arg)
        /\ f.branch = "multi" => d.pathlist = HeadGroup(f.arg, f.node)

\* a list that breaks the rules is being traversed in its normalised form
C20_Witness ==
  /\ Len(stack) = 1
  /\ Top.branch = "single"
  /\ applieddata.pathlist # applieddata.origpathlist
  /\ applieddata.origpathlist = Top.arg
  /\ ~aborted

\* the denormalised list of scenario S4, and the path it comes down to
S4List == << MkPath("G0", <<0, 1>>), MkPath("G0", <<0>>), MkPath("G0", <<0, 1>>) >>

S4Path == MkPath("G0", <<0>>)

\* C21: denormalised path list.  apply({G0->A->A1, G0->A, G0->A->A1}, FALSE)
\* behaves like apply to the path G0->A: the list applied to is {G0->A}, the
\* head G0 observes IN_PATH with the indices [0], and every node reached by
\* pushCurPath has the path code it has relative to G0->A, so BELOW_PATH at
\* A and under it.
C21_Denormalised ==
  (~aborted /\ stack # <<>> /\ stack[1].kind = "apply" /\ stack[1].arg = S4List
     /\ stack[1].branch # "obeys") =>
    /\ AppliedAt(1).pathlist = << S4Path >>
    /\ currentpathcode = CodeOnPath(currentpath, S4Path)
    /\ (Len(stack) = 1 /\ last.op = "getPathCode") => pathcodearray[1] = <<0>>
    /\ (Len(stack) >= 2 /\ stack[2].node = "A") => currentpathcode = BELOW_PATH

\* A1 below A is being traversed under the list of S4
C21_Witness ==
  /\ Len(stack) = 3
  /\ stack[1].arg = S4List
  /\ stack[1].branch = "single"
  /\ Len(pathcodearray) >= 1
  /\ CurNode = "A1"
  /\ currentpathcode = BELOW_PATH
  /\ ~aborted

\* no path of L is equal to or a prefix of another path of L
NoPrefix(L) == \A i, j \in 1..Len(L) : i # j => ~containsPath(L[i], L[j])

\* C22: for every path list L, sort(sort(L)) = sort(L), uniquify(uniquify(L))
\* = uniquify(L), and in the sorted, uniquified copy apply() makes of L no
\* path is equal to or a prefix of another.
C22_SortUniquify ==
  (stack # <<>> /\ stack[1].kind = "apply" /\ stack[1].branch \in {"single", "multi"}) =>
    LET L == stack[1].arg
    IN  /\ sort(sort(L)) = sort(L)
        /\ uniquify(uniquify(L)) = uniquify(L)
        /\ uniquify(uniquify(sort(L))) = uniquify(sort(L))
        /\ NoPrefix(SortedList(L))

\* apply() is at work on a list that was neither sorted nor free of
\* prefixes
C22_Witness ==
  /\ stack # <<>>
  /\ stack[1].kind = "apply"
  /\ stack[1].branch \in {"single", "multi"}
  /\ sort(stack[1].arg) # stack[1].arg
  /\ Len(SortedList(stack[1].arg)) < Len(sort(stack[1].arg))
  /\ ~NoPrefix(stack[1].arg)

\* C23: applying to null is a no-op.  When apply((SoNode *) NULL) has
\* returned, neither beginTraversal nor endTraversal has been invoked, the
\* reference counts are unchanged, and appliedcode, applieddata,
\* currentpathcode and currentpath are what they were before the call.
C23_ApplyNull ==
  (last.op = "applyReturn" /\ last.frame.branch = "node" /\ last.frame.node = NULL) =>
    /\ last.frame.begins = 0
    /\ last.frame.ends = 0
    /\ HeldCounts = last.frame.refs
    /\ appliedcode = last.frame.acode
    /\ applieddata = last.frame.adata
    /\ currentpathcode = last.frame.code
    /\ currentpath = last.frame.path

\* a node action method below the head of a path traversal has called
\* apply(NULL)
C23_Witness ==
  /\ last.op = "applyReturn"
  /\ last.frame.branch = "node"
  /\ last.frame.node = NULL
  /\ Len(stack) >= 2
  /\ appliedcode = PATH
  /\ currentpathcode # NO_PATH

\* C24: while an action is being applied, exactly the accessors that match
\* getWhatAppliedTo() return non-NULL: getNodeAppliedTo() for NODE,
\* getPathAppliedTo() for PATH, getPathListAppliedTo() and
\* getOriginalPathListAppliedTo() for PATH_LIST, also inside nested
\* switchTo...Traversal calls of another kind.
C24_MatchingAccessor ==
  InTraversal =>
    /\ (getNodeAppliedTo # NULL) <=> (getWhatAppliedTo = NODE)
    /\ (getPathAppliedTo # NullPath) <=> (getWhatAppliedTo = PATH)
    /\ (getPathListAppliedTo # NullList) <=> (getWhatAppliedTo = PATH_LIST)
    /\ (getOriginalPathListAppliedTo # NullList) <=> (getWhatAppliedTo = PATH_LIST)

\* a node is traversed by switchToNodeTraversal inside the application to
\* a path list
C24_Witness ==
  /\ InTraversal
  /\ Len(stack) >= 2
  /\ stack[1].branch \in {"single", "multi"}
  /\ Top.kind = "switch"
  /\ getWhatAppliedTo = NODE
  /\ getNodeAppliedTo # NULL

\* C25: whenever an apply overload has invoked beginTraversal the state
\* exists; it is the state that existed when apply was called, and no
\* state was created, unless there was none (first apply, or
\* invalidateState() since the apply before), in which case it is a state
\* created by this apply.
C25_StateLifecycle ==
  \A k \in 1..Len(stack) :
    (stack[k].kind = "apply" /\ stack[k].begins > 0) =>
      /\ state.ptr # 0
      /\ IF stack[k].st.ptr # 0
           THEN state.ptr = stack[k].st.ptr /\ state.made = stack[k].st.made
           ELSE /\ state.ptr = stack[k].st.made + 1
                /\ state.made = stack[k].st.made + 1

\* a second apply, after invalidateState(), traverses with a second state
C25_Witness ==
  /\ InTraversal
  /\ Top.kind = "apply" /\ Top.begins > 0
  /\ napplies = 2
  /\ Top.st.ptr = 0 /\ Top.st.made = 1
  /\ state.ptr = 2

\* a second apply traverses with the state the first apply created
C25_WitnessSame ==
  /\ InTraversal
  /\ Len(stack) = 1
  /\ Top.kind = "apply" /\ Top.begins > 0
  /\ napplies = 2
  /\ Top.st.ptr = 1 /\ Top.st.made = 1
  /\ state.ptr = 1

\* C29: when the current path code is NO_PATH, BELOW_PATH or OFF_PATH,
\* getPathCode returns that code and leaves the caller's numindices and
\* indices and every buffer of pathcodearray unchanged.
C29_GetPathCodeFrame ==
  [][(last'.op = "getPathCode" /\ currentpathcode # IN_PATH) =>
       /\ last'.code = currentpathcode
       /\ currentpathcode' = currentpathcode
       /\ last'.out = CallerVars
       /\ pathcodearray' = pathcodearray]_vars

\* getPathCode has returned BELOW_PATH during the application to a path
\* list, with scratch buffers filled by earlier calls
C29_Witness ==
  /\ last.op = "getPathCode"
  /\ last.code = BELOW_PATH
  /\ appliedcode = PATH_LIST
  /\ last.out = CallerVars
  /\ Len(pathcodearray) > 0 /\ pathcodearray[1] # <<>>

\* C30: pushCurPath() lengthens the current path by one step, a NULL node
\* with index -1; popPushCurPath(childindex, node) replaces the last step
\* by the child at childindex and leaves the length as it was; neither
\* changes the current path code or any step but the last.
C30_NullPushFrame ==
  /\ last.op = "pushCurPathVoid" =>
       /\ currentpath = Append(last.path, Step(NULL, -1))
       /\ currentpathcode = last.code
  /\ last.op = "popPushCurPath" =>
       /\ Len(currentpath) = Len(last.path)
       /\ pop(currentpath) = pop(last.path)
       /\ currentpathcode = last.code
       /\ LET parent == getTail(pop(currentpath))
              idx == getIndex(currentpath, Len(currentpath) - 1)
          IN  /\ idx \in 0..NumChildren(parent) - 1
              /\ getTail(currentpath) = Child(parent, idx)

\* popPushCurPath has replaced the step of the first child by the step of
\* the second one, below the top of a path being traversed
C30_Witness ==
  /\ last.op = "popPushCurPath"
  /\ Len(last.path) >= 2
  /\ getIndex(last.path, Len(last.path) - 1) = 0
  /\ getIndex(currentpath, Len(currentpath) - 1) = 1
  /\ currentpathcode # NO_PATH

\* pushCurPath() has appended the NULL step
C30_WitnessPush ==
  /\ last.op = "pushCurPathVoid"
  /\ getTail(currentpath) = NULL
  /\ getIndex(currentpath, Len(currentpath) - 1) = -1

\* C27 as stated: when an apply during which the node action methods have
\* closed every scope they opened returns, the state depth is what it was
\* at the call, and at every stack index the top element is the one that
\* was top at the call.
C27_AnyApply ==
  (last.op = "applyReturn" /\ last.frame.begins > 0) =>
    /\ state.depth = last.frame.st.depth
    /\ \A index \in StackIndices :
         TopElement(state, index) = TopElement(last.frame.st, index)

\* C27, amended: when such an apply returns, the state depth is what it was
\* at the call; at a stack index whose top element at the call was of that
\* depth the top element is still that one, and at any other index it is
\* that one or a new element of that depth.
C27_StateBalance ==
  (last.op = "applyReturn" /\ last.frame.begins > 0) =>
    /\ state.depth = last.frame.st.depth
    /\ \A index \in StackIndices :
         \/ TopElement(state, index) = TopElement(last.frame.st, index)
         \/ /\ TopElement(last.frame.st, index).depth < last.frame.st.depth
            /\ TopElement(state, index).depth = last.frame.st.depth
            /\ TopElement(state, index).id > last.frame.st.nelems

\* an apply called by the application has returned, after new top elements
\* were made in scopes opened during it
C27_Witness ==
  /\ last.op = "applyReturn" /\ last.frame.begins > 0
  /\ stack = <<>>
  /\ state.nelems > last.frame.st.nelems
  /\ \A index \in StackIndices : TopElement(state, index) = InitialElement

\* an apply called inside an open scope has returned and has left a new top
\* element of that scope
C27_WitnessNested ==
  /\ last.op = "applyReturn" /\ last.frame.begins > 0
  /\ Len(stack) >= 2
  /\ last.frame.st.depth = 1
  /\ \E index \in StackIndices :
       TopElement(state, index) # TopElement(last.frame.st, index)

\* the methods added by the action class or an ancestor for the node class
\* or an ancestor
Candidates(type) ==
  { addedmethods[k] : k \in { j \in 1..Len(addedmethods) :
      /\ InChain(Chain(ActionParent, ThisClass), addedmethods[j].action)
      /\ InChain(Chain(NodeParent, type), addedmethods[j].type) } }

\* more specific: added for a nearer node class, or for the same node class
\* by a nearer action class
MoreSpecific(type, m, q) ==
  LET nodes == Chain(NodeParent, type)
      actions == Chain(ActionParent, ThisClass)
  IN  \/ Distance(nodes, m.type) < Distance(nodes, q.type)
      \/ /\ m.type = q.type
         /\ Distance(actions, m.action) < Distance(actions, q.action)

MostSpecific(type) ==
  IF Candidates(type) = {} THEN nullAction
  ELSE CHOOSE m \in Candidates(type) :
         \A q \in Candidates(type) : q = m \/ MoreSpecific(type, m, q)

\* C26: dispatch closure.  During a traversal, whatever the order the
\* methods were added in, the entry of every node class is the most specific
\* method added by the action class or an ancestor for the node class or an
\* ancestor, and nullAction if there is none; the method invoked for a node
\* is the entry of its class; a node whose method is nullAction makes no
\* kernel call.
C26_DispatchClosure ==
  InTraversal =>
    /\ \A i \in 1..Len(NodeTypes) :
         traversalMethods[getActionMethodIndex(NodeTypes[i]) + 1] = MostSpecific(NodeTypes[i])
    /\ \A k \in 1..Len(stack) :
         stack[k].node # NULL =>
           stack[k].method = MostSpecific(getTypeId(stack[k].node))
    /\ Top.method = nullAction =>
         /\ ~Top.sett
         /\ getTail(currentpath) = Top.node
         /\ Len(currentpath) = (IF Top.kind = "push" THEN Len(Top.path) + 1 ELSE 1)

\* the action class and its parent have both added a method for the class of
\* a node, the parent last, and the node is traversed
C26_Witness ==
  /\ InTraversal
  /\ Len(addedmethods) >= 2
  /\ addedmethods[1].action = ThisClass
  /\ addedmethods[2].action = "SoAction"
  /\ addedmethods[1].type = addedmethods[2].type
  /\ Top.method = addedmethods[1]

\* a node is traversed whose class nothing was added for: nullAction
C26_WitnessNull ==
  /\ InTraversal
  /\ Top.kind = "push"
  /\ Top.method = nullAction
  /\ addedmethods # <<>>

\* a node is traversed with the method the parent action class added for the
\* parent of its node class
C26_WitnessInherited ==
  /\ InTraversal
  /\ Top.node = "G0"
  /\ Top.method = [action |-> "SoAction", type |-> "SoGroup"]

\* C28: after SoSFVec4f::initClass() has run, SoSFVec4f::getClassTypeId()
\* is not SoType::badType(), and getTypeId() of every SoSFVec4f instance is
\* not SoType::badType().
C28_ValidType ==
  "SoSFVec4f" \in initcalls =>
    /\ getClassTypeId("SoSFVec4f") # badType
    /\ \A k \in 1..instances["SoSFVec4f"] : getFieldTypeId("SoSFVec4f") # badType

\* SoSFVec4f is initialised and there is an instance of it, as in the test
\* case "initialized"
C28_Witness ==
  /\ "SoSFVec4f" \in initcalls
  /\ instances["SoSFVec4f"] >= 1
  /\ getFieldTypeId("SoSFVec4f") = fromName(types, "SoSFVec4f")

\* C31: a nested apply does not disturb the termination flag of the outer
\* traversal.  When an apply() that a node action method called on a node,
\* path or path list has traversed and returns, hasTerminated() is what it
\* was just before the call, whether or not the inner traversal was
\* terminated.
C31_NestedKeepsTerminated ==
  (last.op = "applyReturn" /\ stack # <<>> /\ last.frame.begins > 0) =>
    terminated = last.frame.term

\* C32: scratch-buffer stability.  The indices the action method of a node
\* got from getPathCode at depth d are still the contents of the scratch
\* buffer of depth d for as long as that method runs, whatever getPathCode
\* calls are made by descendants, inside a nested apply() and inside a
\* switchToPathTraversal() in between.
C32_ScratchStable ==
  \A k \in 1..Len(stack) :
    stack[k].gotlen > 0 => pathcodearray[stack[k].gotlen] = stack[k].got

\* C33: the assertion in pushCurPath never fails.  In a traversal started
\* by apply(path) or by switchToPathTraversal(path), at whatever depth of
\* the outer traversal, a pushCurPath(idx, child) with applied code PATH and
\* path code IN_PATH leaves the current path no longer than the applied
\* path, and usePathCode never looks for the scratch buffer of an empty
\* current path.
C33_AssertionHolds == last.op \notin {"assert", "noarray"}

\* the current path apply(path) would have after the pushes made since the
\* switchToPathTraversal of frame s: the head of the path, then the steps
\* appended since the call
SincePath(s) ==
  setHead(EmptyPath, getHead(applieddata.path))
    \o SubSeq(currentpath, Len(stack[s].path) + 1, Len(currentpath))

\* C34: switchToPathTraversal(path) classifies nodes as apply(path) does.
\* At the head and at every child pushed since, the path code is the one
\* apply(path) has there after the same pushes (C2): IN_PATH on a proper
\* prefix of the path, BELOW_PATH from its end on (at the head too, when the
\* path is the head only), OFF_PATH once a push has left the path.
C34_SwitchAsApply ==
  \A s \in 1..Len(stack) :
    (/\ stack[s].kind = "switch"
     /\ stack[s].branch = "path"
     /\ \A j \in (s + 1)..Len(stack) : stack[j].kind = "push"
     /\ ~aborted) =>
      currentpathcode = CodeOnPath(SincePath(s), applieddata.path)

\* C35: the head groups of apply(pathlist, FALSE) over several heads.
\* During the traversal of a head every path of getPathListAppliedTo() has
\* that head, and the list is the run of the sorted, uniquified list that
\* ends where the loop stands and holds every path with that head, so that
\* a path is in one group only; a traversal that is not terminated leaves
\* no path out.  After apply returns, appliedcode and applieddata are what
\* they were before the call: neither the list of a group nor the sorted
\* list is referred to.
C35_HeadGroups ==
  /\ (~aborted /\ stack # <<>> /\ stack[1].kind = "apply" /\ stack[1].branch = "multi") =>
       LET f == stack[1]
           pl == getPathListAppliedTo
           first == f.i - Len(pl) + 1
       IN  /\ appliedcode = PATH_LIST
           /\ Len(pl) > 0
           /\ \A j \in 1..Len(pl) : getHead(pl[j]) = f.node
           /\ pl = SubSeq(f.sorted, first, f.i)
           /\ \A j \in 1..Len(f.sorted) :
                getHead(f.sorted[j]) = f.node <=> j \in first..f.i
  /\ (last.op = "applyReturn" /\ last.frame.branch = "multi") =>
       /\ appliedcode = last.frame.acode
       /\ applieddata = last.frame.adata
       /\ ~last.frame.sett => last.frame.i = Len(last.frame.sorted)

\* a child of the second head of a list is being traversed, after a first
\* head that had two paths
C35_Witness ==
  /\ Len(stack) = 2
  /\ stack[1].branch = "multi"
  /\ stack[1].begins = 2
  /\ stack[1].i = 3
  /\ Len(getPathListAppliedTo) = 1
  /\ ~aborted

\* an apply to a list with two heads has returned after both traversals
C35_WitnessReturn ==
  /\ last.op = "applyReturn"
  /\ last.frame.branch = "multi"
  /\ last.frame.begins = 2
  /\ appliedcode = NODE
  /\ applieddata = NoData

\* C38: the type hierarchy of the field classes.  After
\* SoMFVec3f::initClass() the type created for SoMFVec3f has the type of its
\* superclass, inherited::getClassTypeId(), as parent, and is derived from
\* it.
C38_ParentIsSuperclass ==
  "SoMFVec3f" \in initcalls =>
    /\ types[getClassTypeId("SoMFVec3f")].parent = getClassTypeId(ClassParent["SoMFVec3f"])
    /\ isDerivedFrom(types, getClassTypeId("SoMFVec3f"),
                     getClassTypeId(ClassParent["SoMFVec3f"]))

\* C36: the shader-object refresh protocol of SoShaderProgram.  A GLRender
\* traverses the shader objects, and works doesContainStateMatrixParameters
\* out again, if and only if it is the first GLRender of the node or
\* sensorCB has run since the GLRender before completed; every GLRender
\* ends with shouldTraverseShaderObjects FALSE; a GLRender that does not
\* traverse calls updateStateMatrixParameters exactly when
\* doesContainStateMatrixParameters is TRUE.
C36_RefreshProtocol ==
  (lastRender.done /\ ~crashed) =>
    /\ lastRender.traversed <=> (lastRender.first \/ lastRender.fired)
    /\ lastRender.recomputed <=> lastRender.traversed
    /\ ~shouldTraverseShaderObjects
    /\ ~lastRender.traversed =>
         (lastRender.updated <=> doesContainStateMatrixParameters)

\* a GLRender after the first has not traversed the shader objects and has
\* called updateStateMatrixParameters
C36_Witness ==
  /\ lastRender.done
  /\ ~lastRender.first
  /\ ~lastRender.traversed
  /\ lastRender.updated

\* a GLRender after the first has traversed the shader objects, the sensor
\* having fired
C36_WitnessRefresh ==
  /\ lastRender.done
  /\ ~lastRender.first
  /\ lastRender.fired
  /\ lastRender.traversed
  /\ ~crashed

\* C37: a shader object the SoShaderProgram refers to at the time of a
\* GLRender, in the shaderObject field or among the children, is not
\* detached by that GLRender: removeGLShaderFromGLProgram is called only on
\* shader objects that are in neither, whatever entries were added, taken
\* out and entered twice between the renders.
C37_NoDetachOfCurrent ==
  lastRender.done =>
    \A i \in 1..Len(lastRender.detached) :
      isShaderObject(lastRender.detached[i]) =>
        /\ find(shaderObject, lastRender.detached[i]) = -1
        /\ find(children, lastRender.detached[i]) = -1

\* C39: after every GLRender that traverses the shader objects,
\* previousChildren is the values of the shaderObject field followed by the
\* children, in order and each as often as it is entered.
C39_PreviousIsCurrent ==
  (lastRender.done /\ lastRender.traversed /\ ~crashed) =>
    previousChildren = shaderObject \o children

\* a traversing GLRender with a node entered in the field and again among
\* the children
C39_Witness ==
  /\ lastRender.done
  /\ lastRender.traversed
  /\ ~crashed
  /\ Len(shaderObject) = 1
  /\ Len(children) = 1
  /\ shaderObject[1] = children[1]
  /\ Len(previousChildren) = 2

=============================================================================
